---- MODULE Spec2Model ----
(***************************************************************************)
(* Weather-arbitrage scanner of raphael-solana: the strategy manager       *)
(* (single-owner daemon, status file and liveness marker shared through    *)
(* the filesystem) and the Polymarket strategy tick.                       *)
(*                                                                         *)
(* The repository carries two file-backed builds of strategyManager.ts:    *)
(*   "json"  - src/src/strategyManager.ts (marker is JSON {pid}, written   *)
(*             by atomicWriteJSON)                                         *)
(*   "plain" - src/unnamed/part_005:1-228 (marker is the plain pid string, *)
(*             written by fs.writeFileSync)                                *)
(* The build in use is fixed in the initial state.                         *)
(*                                                                         *)
(* Every handler of a process is synchronous JavaScript, so it runs to     *)
(* completion with respect to that process; other processes interleave     *)
(* between its filesystem calls.  A handler is therefore a queue of        *)
(* micro-operations, one per system call, executed one at a time.          *)
(***************************************************************************)
EXTENDS Integers, Sequences, FiniteSets, TLC

\* ---- bounds -------------------------------------------------------------
NumProcs  == 2      \* processes sharing one data directory
MaxStarts == 2      \* startWeatherArb calls in a run, over all processes
MaxTicks  == 2      \* ticks launched in a run, over all processes

NumCities == 2      \* config.cities of the Polymarket tick
NumTokens == 1      \* YES token ids a target bracket can carry
MaxUsdc   == 1      \* largest balance / configured amount, in USDC

MaxBrackets == 2    \* brackets the Gamma API lists for one city and date

MaxHours == 36         \* largest hoursUntilClose handed to forecastSigmaF

MaxRequests == 3    \* L2-authenticated requests of one process
MaxCalls == 3       \* getApiCreds calls of one process for one wallet address
NumCreds == 2       \* distinct credentials the auth endpoint can answer with

Procs    == 1..NumProcs
TickIds  == 1..MaxTicks
Variants == {"json", "plain"}

\* ---- file contents ------------------------------------------------------
FileNames == {"status", "pid", "status.tmp", "pid.tmp"}
Absent    == [k |-> "absent"]
Empty     == [k |-> "empty"]       \* opened with O_TRUNC, nothing written yet
\* `old`: the file was last written more than the staleness window ago.
StatusData(r, rd) ==
  [k |-> "status", running |-> r, reading |-> rd, old |-> FALSE]
PidData(p)        == [k |-> "pid", pid |-> p]
\* A status file this program did not write (another version, an editor, a
\* damaged disk): text that is no JSON ("unparsable"), JSON without a
\* weather_arb object such as {} or null ("noWeatherArb"), or JSON whose
\* weather_arb object has no running field, such as {"weather_arb": {}}
\* ("noRunning").
ForeignShapes == {"unparsable", "noWeatherArb", "noRunning"}
Foreign(shape) == [k |-> "foreign", shape |-> shape]

VARIABLES
  variant,                \* which build of strategyManager.ts is deployed
  procState,              \* "alive" | "killed" | "exited" | "cleanedUp"
  isOwnerProcess,
  weatherArbIntervalId,   \* 0 = null, else the id of the last setInterval
  weatherArbLastReading,  \* 0 = null, else the id of the tick that produced it
  armed,                  \* timers that are armed (setInterval not yet cleared)
  inflight,               \* ticks started and not yet settled
  nStarts,                \* startWeatherArb calls made so far (names the timers)
  nTicks,                 \* ticks launched so far (names the ticks)
  handlers,               \* cleanup closures registered with process.on
  sigPending,             \* a SIGTERM/SIGINT is queued for the event loop
  queue,                  \* remaining micro-operations of the running handler
  files,                  \* the shared data directory
  cliPc,                  \* the `scanner start` CLI: "idle" | "spawn"
  \* runPolymarketWeatherArbTick (src/unnamed/part_003)
  config,                 \* PolymarketWeatherConfig: dryRun, the two amounts
  tickPc,                 \* "off" | "wallet" | "openOrders" | "balance" |
                          \* "city" | "placeOrder" | "onReading" | "done" | "rejected"
  wallet,                 \* "unset" | "null" | "loaded"
  positionedTokenIds,     \* asset ids of the open orders fetched by the tick
  usdcBalance,            \* balance fetched by the tick
  cityIdx,                \* index into config.cities of the city in hand
  reading,                \* the Reading of the city awaiting placeOrder
  readings,               \* the Readings pushed so far
  calls,                  \* how often each external function was invoked
  orders,                 \* the placeOrder invocations: city, token, price,
                          \* size, what the call met and how it ended
  scanned,                \* what scanCity gave for each city so far
  scan,                   \* one scanCity call: its position and its locals
  clob,                   \* credsCache and the getApiCreds calls of a process
  l2,                     \* the L2-authenticated requests a process has sent
  faults,                 \* which of the tick's guarded fetches failed
  tickNo                  \* the number of the tick, over a sequence of ticks

mem  == <<isOwnerProcess, weatherArbIntervalId, weatherArbLastReading,
          armed, inflight, nStarts, nTicks, handlers>>
vars == <<variant, procState, isOwnerProcess, weatherArbIntervalId,
          weatherArbLastReading, armed, inflight, nStarts, nTicks, handlers,
          sigPending, queue, files, cliPc,
          config, tickPc, wallet, positionedTokenIds, usdcBalance, cityIdx,
          reading, readings, calls, orders, scanned, scan, clob, l2, faults, tickNo>>
daemonVars == <<variant, procState, mem, sigPending, queue, files, cliPc>>
tickVars == <<config, tickPc, wallet, positionedTokenIds, usdcBalance, cityIdx,
              reading, readings, calls, orders, scanned, scan, clob, l2, faults, tickNo>>

\* A StrategyStatus as getStatus returns it: weather_arb.running, _source,
\* _stale.
Status(r, src, st) == [running |-> r, source |-> src, stale |-> st]

\* A micro-operation: the call `op` on file `f`.  `timer` and `tick` name the
\* timer and the first tick of a startWeatherArb call, `val` is the status a
\* getStatus call returns, `again` marks the steps of a cleanup that runs on a
\* manager whose timer was already cleared.
Op(o, f) == [op |-> o, f |-> f, timer |-> 0, tick |-> 0,
             val |-> Status(FALSE, "none", FALSE), again |-> FALSE,
             old |-> FALSE]
ArmOp(o, tm, tk) == [Op(o, "none") EXCEPT !.timer = tm, !.tick = tk]
ReturnOp(v) == [Op("return", "none") EXCEPT !.val = v]
Again(ops) == [i \in DOMAIN ops |-> [ops[i] EXCEPT !.again = TRUE]]

DaemonInit ==
  /\ procState = [p \in Procs |-> "alive"]
  /\ isOwnerProcess = [p \in Procs |-> FALSE]
  /\ weatherArbIntervalId = [p \in Procs |-> 0]
  /\ weatherArbLastReading = [p \in Procs |-> 0]
  /\ armed = [p \in Procs |-> {}]
  /\ inflight = [p \in Procs |-> {}]
  /\ nStarts = 0
  /\ nTicks = 0
  /\ handlers = [p \in Procs |-> 0]
  /\ sigPending = [p \in Procs |-> FALSE]
  /\ queue = [p \in Procs |-> <<>>]
  /\ files = [f \in FileNames |-> Absent]
  /\ cliPc = "idle"

Cities == 1..NumCities
Tokens == 1..NumTokens

ExternalCalls == {"loadEvmWallet", "getApiCreds", "getOpenOrders",
                  "getUsdcBalance", "scanCity", "placeOrder", "cancelOrder",
                  "onReading"}

\* const reading = { city, ..., targetBracket: null, orderId: null,
\*                   skippedReason: null }; targetBracket 0 stands for null.
NewReading(c) ==
  [city |-> c, targetBracket |-> 0, orderId |-> "null", skippedReason |-> "null"]

\* The tick's variables once `tickPc` and `config` are given.
TickLocals ==
  /\ wallet = "unset"
  /\ positionedTokenIds = {}
  /\ usdcBalance = 0
  /\ cityIdx = 1
  /\ reading = NewReading(0)
  /\ readings = <<>>
  /\ calls = [f \in ExternalCalls |-> 0]
  /\ orders = {}
  /\ scanned = <<>>

\* fetchAskPrice has not settled yet / settled with null.
Unfetched == 0 - 2
NoPrice == 0 - 1

\* No scanCity call is being followed.
ScanOff ==
  [pc |-> "off", minEdge |-> 0, minFairValue |-> 0, rawBrackets |-> <<>>,
   minutesUntilClose |-> 0, askPrices |-> <<>>,
   result |-> [skippedReason |-> "null", targetBracket |-> 0,
               allBrackets |-> <<>>]]

\* const credsCache = new Map(): empty at module load (0 is "no entry" for the
\* one wallet address followed); no getApiCreds call has been made.  sent,
\* completed, resent and firstCached record the history of the handshakes.
ClobInit ==
  [credsCache |-> 0,
   call |-> [c \in 1..MaxCalls |-> [pc |-> "idle", creds |-> 0]],
   sent |-> 0, completed |-> FALSE, resent |-> FALSE, firstCached |-> 0]

\* The failures of getOpenOrders and getUsdcBalance are not recorded / none
\* has been recorded yet.
Untracked == {"untracked"}
NoFault == {}

\* No L2 request has been sent; signed counts the HMAC computations.
L2Init == [sent |-> <<>>, signed |-> 0]

\* The strategy manager alone: no Polymarket tick is running.
Init ==
  /\ variant \in Variants
  /\ DaemonInit
  /\ config = [dryRun |-> TRUE, tradeAmountUsdc |-> 0, maxPositionUsdc |-> 0]
  /\ tickPc = "off"
  /\ TickLocals
  /\ scan = ScanOff
  /\ clob = ClobInit
  /\ l2 = L2Init
  /\ faults = Untracked
  /\ tickNo = 1

Idle(p) == procState[p] = "alive" /\ queue[p] = <<>>

\* ---- helpers of strategyManager.ts ----------------------------------------

getLiveStatus(p) ==
  StatusData(weatherArbIntervalId[p] # 0, weatherArbLastReading[p])

\* A write that publishes the temporary file before any data is in it.
atomicWriteJSONNoData(f, renameOp) ==
  << Op("trunc", f \o ".tmp"), Op(renameOp, f) >>

\* atomicWriteJSON(filePath, data): writeFileSync(tmp) then renameSync.
\* writeFileSync is open(O_TRUNC) followed by write.
atomicWriteJSON(f, renameOp) ==
  << Op("trunc", f \o ".tmp"), Op("fill", f \o ".tmp"), Op(renameOp, f) >>

\* saveStatusToDisk: every failure is swallowed by its try/catch.
saveStatusToDisk == atomicWriteJSON("status", "rename")

\* writePidFile of the plain build: fs.writeFileSync(PID_FILE, pid) in place.
writePidFile == << Op("trunc", "pid"), Op("fill", "pid") >>

isPidAlive(pid) == pid \in Procs /\ procState[pid] = "alive"

isDaemonRunning == files["pid"].k = "pid" /\ isPidAlive(files["pid"].pid)

\* cleanupPidFile of the plain build.
cleanupPidFile == << Op("unlink", "pid") >>

\* The calls startWeatherArb makes after isOwnerProcess = true.  The json
\* build writes the marker with atomicWriteJSON outside any try/catch and
\* registers cleanup before the first status write; the plain build writes the
\* marker in place and registers cleanup last.  In both, saveStatusToDisk runs
\* BEFORE the first tick and setInterval.
startWeatherArbOps(tm, tk) ==
  IF variant = "json"
  THEN atomicWriteJSON("pid", "renameThrow") \o << Op("register", "none") >>
         \o saveStatusToDisk \o << ArmOp("tickArm", tm, tk) >>
  ELSE writePidFile \o saveStatusToDisk \o << ArmOp("tickArmRegister", tm, tk) >>

\* cleanup(), after it has cleared the timer: (json) unlink the marker and
\* write the status, or (plain) write the status and unlink the marker.
cleanupOps ==
  IF variant = "json"
  THEN << Op("unlink", "pid") >> \o saveStatusToDisk
  ELSE saveStatusToDisk \o cleanupPidFile

\* What stopWeatherArb does after clearing a non-null timer.
stopWeatherArbOps ==
  IF variant = "json" THEN saveStatusToDisk
  ELSE saveStatusToDisk \o cleanupPidFile

RECURSIVE Repeat(_, _)
Repeat(ops, n) == IF n = 0 THEN <<>> ELSE ops \o Repeat(ops, n - 1)

\* The status getStatus synthesizes after deleting a dead daemon's files.
deadDaemonStatus ==
  IF variant = "json"
  THEN Status(FALSE, "file", TRUE)
  ELSE Status(FALSE, "dead_daemon_cleanup", FALSE)

defaultStatus == Status(FALSE, "default", FALSE)

liveStatus(p) == Status(weatherArbIntervalId[p] # 0, "live", FALSE)

\* { ...fileData, _source: "file" }; the plain build adds
\* _stale: ageMs > staleThresholdMs (10 minutes) from the file's mtime
\* (d.old says whether the age is beyond the threshold), the json build
\* never looks at the age.
fileStatus(d) ==
  Status(d.running, "file", IF variant = "plain" THEN d.old ELSE FALSE)

\* What getStatus makes of a status file of foreign content.  JSON.parse
\* throws on text that is no JSON, and fileData.weather_arb.running throws a
\* TypeError when weather_arb is missing: both land in the catch and fall
\* through to the default.  With weather_arb present and running missing,
\* the test `fileData.weather_arb.running && ...` is false and the data is
\* returned as read, tagged _source: "file".
foreignStatus(d) ==
  IF d.shape \in {"unparsable", "noWeatherArb"} THEN defaultStatus
  ELSE Status(FALSE, "file", FALSE)

\* ---- process lifecycle ----------------------------------------------------

\* The process is gone: its memory, timers and pending promises with it.
Die(p, why) ==
  /\ procState' = [procState EXCEPT ![p] = why]
  /\ isOwnerProcess' = [isOwnerProcess EXCEPT ![p] = FALSE]
  /\ weatherArbIntervalId' = [weatherArbIntervalId EXCEPT ![p] = 0]
  /\ weatherArbLastReading' = [weatherArbLastReading EXCEPT ![p] = 0]
  /\ armed' = [armed EXCEPT ![p] = {}]
  /\ inflight' = [inflight EXCEPT ![p] = {}]
  /\ handlers' = [handlers EXCEPT ![p] = 0]
  /\ sigPending' = [sigPending EXCEPT ![p] = FALSE]
  /\ queue' = [queue EXCEPT ![p] = <<>>]
  /\ UNCHANGED <<variant, nStarts, nTicks, files>>

\* A process in which the manager holds nothing: just spawned, or one that
\* only ever asked for the status.  Such processes are used in the order of
\* their ids.
Unused(p) == Idle(p) /\ ~isOwnerProcess[p] /\ ~sigPending[p]
Fresh(p) == Unused(p) /\ \A q \in Procs : q < p => ~Unused(q)

\* SIGKILL, power loss, or SIGTERM/SIGINT while no listener is registered:
\* the process ends wherever it is and no handler runs.
Crash(p) ==
  /\ procState[p] = "alive"
  /\ Die(p, "killed")
  /\ UNCHANGED <<cliPc, tickVars>>

\* process.kill(pid, "SIGTERM") by another process: with no listener the
\* default action ends the target at once; otherwise the listener is queued
\* on the target's event loop.
Deliver(q) ==
  IF handlers[q] = 0
  THEN Die(q, "killed")
  ELSE /\ sigPending' = [sigPending EXCEPT ![q] = TRUE]
       /\ UNCHANGED <<variant, procState, mem, queue, files>>

\* if (weatherArbIntervalId) { clearInterval(...); weatherArbIntervalId = null }
clearTimer(p) ==
  /\ armed' = [armed EXCEPT ![p] = @ \ {weatherArbIntervalId[p]}]
  /\ weatherArbIntervalId' = [weatherArbIntervalId EXCEPT ![p] = 0]

\* cleanup() once per listener that process.exit / a signal runs: `n` times,
\* the first time on a manager whose timer was armed iff `wasArmed`.
cleanups(n, wasArmed) ==
  IF n = 0 THEN <<>>
  ELSE (IF wasArmed THEN cleanupOps ELSE Again(cleanupOps))
         \o Again(Repeat(cleanupOps, n - 1))

\* process.on("SIGTERM" | "SIGINT", () => { cleanup(); process.exit(0) }):
\* a signal (queued by another process, or Ctrl-C / pkill from outside)
\* reaches a process with listeners.  The first listener runs cleanup, and
\* process.exit runs every "exit" listener, i.e. cleanup once more per
\* startWeatherArb call that registered it.
HandleSignal(p) ==
  /\ Idle(p) /\ handlers[p] > 0
  /\ sigPending' = [sigPending EXCEPT ![p] = FALSE]
  /\ clearTimer(p)
  /\ queue' = [queue EXCEPT ![p] =
                 cleanups(1 + handlers[p], weatherArbIntervalId[p] # 0)
                   \o << Op("exit", "none") >>]
  /\ UNCHANGED <<variant, procState, isOwnerProcess, weatherArbLastReading,
                 inflight, nStarts, nTicks, handlers, files, cliPc, tickVars>>

\* The event loop runs dry (no timer, no pending tick): node exits and the
\* "exit" listeners run.
NormalExit(p) ==
  /\ Idle(p) /\ ~sigPending[p]
  /\ armed[p] = {} /\ inflight[p] = {}
  /\ queue' = [queue EXCEPT ![p] =
                 cleanups(handlers[p], FALSE) \o << Op("exit", "none") >>]
  /\ UNCHANGED <<variant, procState, mem, sigPending, files, cliPc, tickVars>>

\* ---- handlers of the strategy manager -------------------------------------

\* A run makes at most MaxStarts start calls and launches at most MaxTicks
\* ticks; a start call launches one.
CanStart == nStarts < MaxStarts /\ nTicks < MaxTicks

\* startWeatherArb(config): isOwnerProcess = true, then the queued calls.
startWeatherArb(p) ==
  /\ Idle(p) /\ ~sigPending[p]
  /\ CanStart
  /\ nStarts' = nStarts + 1
  /\ nTicks' = nTicks + 1
  /\ isOwnerProcess' = [isOwnerProcess EXCEPT ![p] = TRUE]
  /\ queue' = [queue EXCEPT ![p] = startWeatherArbOps(nStarts + 1, nTicks + 1)]
  /\ UNCHANGED <<variant, procState, weatherArbIntervalId, weatherArbLastReading,
                 armed, inflight, handlers, sigPending, files, cliPc, tickVars>>

\* stopWeatherArb(): does something only when the interval id is non-null.
stopWeatherArb(p) ==
  /\ Idle(p) /\ ~sigPending[p]
  /\ IF weatherArbIntervalId[p] # 0
     THEN /\ clearTimer(p)
          /\ queue' = [queue EXCEPT ![p] = stopWeatherArbOps]
     ELSE UNCHANGED <<armed, weatherArbIntervalId, queue>>
  /\ UNCHANGED <<variant, procState, isOwnerProcess, weatherArbLastReading,
                 inflight, nStarts, nTicks, handlers, sigPending, files, cliPc,
                 tickVars>>

\* getStatus(): the owner answers from memory, anyone else from the files.
getStatusOps(p) ==
  IF isOwnerProcess[p] THEN << ReturnOp(liveStatus(p)) >>
  ELSE << Op("gsRead", "status") >>

getStatus(p) ==
  /\ Idle(p) /\ ~sigPending[p]
  /\ queue' = [queue EXCEPT ![p] = getStatusOps(p)]
  /\ UNCHANGED <<variant, procState, mem, sigPending, files, cliPc, tickVars>>

\* start_weather_arb.execute of plugin.ts: refuse when getStatus says
\* running, else call startWeatherArb.
pluginStartWeatherArb(p) ==
  /\ Idle(p) /\ ~sigPending[p]
  /\ CanStart
  /\ nStarts' = nStarts + 1
  /\ nTicks' = nTicks + 1
  /\ queue' = [queue EXCEPT ![p] =
                 getStatusOps(p)
                   \o << ArmOp("pluginCont", nStarts + 1, nTicks + 1) >>]
  /\ UNCHANGED <<variant, procState, isOwnerProcess, weatherArbIntervalId,
                 weatherArbLastReading, armed, inflight, handlers, sigPending,
                 files, cliPc, tickVars>>

\* The interval timer fires: runWeatherArbTick is called, whatever is in flight.
TimerFire(p) ==
  /\ Idle(p)
  /\ armed[p] # {}
  /\ nTicks < MaxTicks
  /\ nTicks' = nTicks + 1
  /\ inflight' = [inflight EXCEPT ![p] = @ \cup {nTicks + 1}]
  /\ UNCHANGED <<variant, procState, isOwnerProcess, weatherArbIntervalId,
                 weatherArbLastReading, armed, nStarts, handlers, sigPending,
                 queue, files, cliPc, tickVars>>

\* runWeatherArbTick resolves with a reading: onReading stores it and saves.
TickReading(p, t) ==
  /\ Idle(p)
  /\ t \in inflight[p]
  /\ inflight' = [inflight EXCEPT ![p] = @ \ {t}]
  /\ weatherArbLastReading' = [weatherArbLastReading EXCEPT ![p] = t]
  /\ queue' = [queue EXCEPT ![p] = saveStatusToDisk]
  /\ UNCHANGED <<variant, procState, isOwnerProcess, weatherArbIntervalId,
                 armed, nStarts, nTicks, handlers, sigPending, files, cliPc,
                 tickVars>>

\* buildWeatherArbReading throws: the tick logs and onReading is never called.
TickError(p, t) ==
  /\ Idle(p)
  /\ t \in inflight[p]
  /\ inflight' = [inflight EXCEPT ![p] = @ \ {t}]
  /\ UNCHANGED <<variant, procState, isOwnerProcess, weatherArbIntervalId,
                 weatherArbLastReading, armed, nStarts, nTicks, handlers,
                 sigPending, queue, files, cliPc, tickVars>>

\* ---- micro-operations: one system call per step ---------------------------

HeadOp(p) == Head(queue[p])
Running(p, o) == procState[p] = "alive" /\ queue[p] # <<>> /\ HeadOp(p).op = o
Pop(p) == queue' = [queue EXCEPT ![p] = Tail(@)]

\* The in-memory statements of startWeatherArb that follow a system call run
\* with it (nobody else can see them happen):
\*   "register": process.on("SIGTERM" | "SIGINT" | "exit", ...cleanup)
\*   "tickArm":  runWeatherArbTick(config, onReading) is fired, then
\*               weatherArbIntervalId = setInterval(...); the previous id is
\*               overwritten and its timer is not cleared.
MemOps == {"register", "tickArm", "tickArmRegister"}

Continue(p, rest) ==
  LET more == rest # <<>> /\ Head(rest).op \in MemOps
      m   == IF more THEN Head(rest) ELSE Op("none", "none")
      arm == m.op \in {"tickArm", "tickArmRegister"}
      reg == m.op \in {"register", "tickArmRegister"}
  IN  /\ queue' = [queue EXCEPT ![p] = IF more THEN Tail(rest) ELSE rest]
      /\ handlers' = [handlers EXCEPT ![p] = IF reg THEN @ + 1 ELSE @]
      /\ inflight' = [inflight EXCEPT ![p] = IF arm THEN @ \cup {m.tick} ELSE @]
      /\ weatherArbIntervalId' =
           [weatherArbIntervalId EXCEPT ![p] = IF arm THEN m.timer ELSE @]
      /\ armed' = [armed EXCEPT ![p] = IF arm THEN @ \cup {m.timer} ELSE @]
      /\ UNCHANGED <<isOwnerProcess, weatherArbLastReading, nStarts, nTicks>>

\* fs.writeFileSync, first half: open(path, O_WRONLY|O_CREAT|O_TRUNC).
StepTrunc(p) ==
  /\ Running(p, "trunc")
  /\ files' = [files EXCEPT ![HeadOp(p).f] = Empty]
  /\ Pop(p)
  /\ UNCHANGED <<variant, procState, mem, sigPending, cliPc, tickVars>>

\* What a process writes into a file: { pid: process.pid } / String(pid) into
\* the marker, JSON.stringify(getLiveStatus()) into the status file.
Payload(p, f) ==
  IF f \in {"pid", "pid.tmp"} THEN PidData(p) ELSE getLiveStatus(p)

\* fs.writeFileSync, second half: write(fd, data).  The descriptor follows
\* the inode: if the temporary path was renamed away while still empty, the
\* data lands in the file now published under the target name; if the path
\* was unlinked, the data is lost with the inode.
StepFill(p) ==
  /\ Running(p, "fill")
  /\ LET f == HeadOp(p).f
         t == IF f = "status.tmp" THEN "status" ELSE "pid"
     IN  files' = IF files[f] # Absent
                  THEN [files EXCEPT ![f] = Payload(p, f)]
                  ELSE IF f # t /\ files[t] = Empty
                       THEN [files EXCEPT ![t] = Payload(p, f)]
                       ELSE files
  /\ Continue(p, Tail(queue[p]))
  /\ UNCHANGED <<variant, procState, sigPending, cliPc, tickVars>>

\* fs.renameSync(tmp, filePath).  ENOENT when the temporary file is gone:
\* swallowed inside saveStatusToDisk/cleanup ("rename"), thrown out of
\* startWeatherArb for the json marker ("renameThrow"), which ends the call.
StepRename(p) ==
  /\ procState[p] = "alive" /\ queue[p] # <<>>
  /\ HeadOp(p).op \in {"rename", "renameThrow"}
  /\ LET f == HeadOp(p).f
         tmp == f \o ".tmp"
     IN  IF files[tmp] = Absent
         THEN /\ UNCHANGED files
              /\ Continue(p, IF HeadOp(p).op = "renameThrow" THEN <<>>
                             ELSE Tail(queue[p]))
         ELSE /\ files' = [files EXCEPT ![f] = files[tmp], ![tmp] = Absent]
              /\ Continue(p, Tail(queue[p]))
  /\ UNCHANGED <<variant, procState, sigPending, cliPc, tickVars>>

\* try { fs.unlinkSync(path) } catch {}
StepUnlink(p) ==
  /\ Running(p, "unlink")
  /\ files' = [files EXCEPT ![HeadOp(p).f] = Absent]
  /\ Pop(p)
  /\ UNCHANGED <<variant, procState, mem, sigPending, cliPc, tickVars>>

\* process.exit(0) after the last "exit" listener.
StepExit(p) ==
  /\ Running(p, "exit")
  /\ Die(p, IF handlers[p] > 0 THEN "cleanedUp" ELSE "exited")
  /\ UNCHANGED <<cliPc, tickVars>>

\* getStatus, non-owner: existsSync + readFileSync + JSON.parse of the status
\* file.  A missing or unparsable file gives the default status; running =
\* false is returned as read; running = true goes on to the marker check.
GsRead(p) ==
  /\ Running(p, "gsRead")
  /\ LET d == files["status"]
         next == IF d.k = "foreign" THEN ReturnOp(foreignStatus(d))
                 ELSE IF d.k # "status" THEN ReturnOp(defaultStatus)
                 ELSE IF d.running
                 THEN [Op("gsPid", "pid") EXCEPT !.val = fileStatus(d),
                                                 !.old = d.old]
                 ELSE [ReturnOp(fileStatus(d)) EXCEPT !.old = d.old]
     IN  queue' = [queue EXCEPT ![p] = << next >> \o Tail(@)]
  /\ UNCHANGED <<variant, procState, mem, sigPending, files, cliPc, tickVars>>

\* getStatus: fileData.weather_arb.running && !isDaemonRunning() -> delete
\* both files and return the synthesized status; else return what was read.
GsPid(p) ==
  /\ Running(p, "gsPid")
  /\ queue' = [queue EXCEPT ![p] =
                 (IF isDaemonRunning
                  THEN << [ReturnOp(HeadOp(p).val) EXCEPT !.old = HeadOp(p).old] >>
                  ELSE << Op("unlink", "status"), Op("gsUnlinkPid", "pid") >>)
                   \o Tail(@)]
  /\ UNCHANGED <<variant, procState, mem, sigPending, files, cliPc, tickVars>>

GsUnlinkPid(p) ==
  /\ Running(p, "gsUnlinkPid")
  /\ files' = [files EXCEPT !["pid"] = Absent]
  /\ queue' = [queue EXCEPT ![p] = << ReturnOp(deadDaemonStatus) >> \o Tail(@)]
  /\ UNCHANGED <<variant, procState, mem, sigPending, cliPc, tickVars>>

\* getStatus returns to its caller.  In start_weather_arb.execute the caller
\* goes on: "already running" when the status says so, else
\* startWeatherArb(config).
Return(p) ==
  /\ Running(p, "return")
  /\ LET rest == Tail(queue[p])
         plugin == rest # <<>> /\ Head(rest).op = "pluginCont"
     IN  IF plugin /\ ~HeadOp(p).val.running
         THEN /\ isOwnerProcess' = [isOwnerProcess EXCEPT ![p] = TRUE]
              /\ queue' = [queue EXCEPT ![p] =
                             startWeatherArbOps(Head(rest).timer, Head(rest).tick)]
         ELSE /\ queue' = [queue EXCEPT ![p] = IF plugin THEN Tail(rest) ELSE rest]
              /\ UNCHANGED isOwnerProcess
  /\ UNCHANGED <<variant, procState, weatherArbIntervalId, weatherArbLastReading,
                 armed, inflight, nStarts, nTicks, handlers, sigPending, files,
                 cliPc, tickVars>>

\* ---- the `scanner start` CLI ----------------------------------------------

\* readDaemonPid(); if it names a live process, process.kill(pid, "SIGTERM").
CliStartKill ==
  /\ cliPc = "idle"
  /\ CanStart
  /\ \E c \in Procs : Fresh(c)
  /\ cliPc' = "spawn"
  /\ IF isDaemonRunning /\ ~sigPending[files["pid"].pid]
     THEN Deliver(files["pid"].pid)
     ELSE UNCHANGED <<variant, procState, mem, sigPending, queue, files>>
  /\ UNCHANGED tickVars

\* after the 500 ms wait: spawn(..., "__daemon_weather", ...); the child's
\* main calls strategyManager.startWeatherArb.
CliStartSpawn(c) ==
  /\ cliPc = "spawn"
  /\ Fresh(c)
  /\ cliPc' = "idle"
  /\ CanStart
  /\ nStarts' = nStarts + 1
  /\ nTicks' = nTicks + 1
  /\ isOwnerProcess' = [isOwnerProcess EXCEPT ![c] = TRUE]
  /\ queue' = [queue EXCEPT ![c] = startWeatherArbOps(nStarts + 1, nTicks + 1)]
  /\ UNCHANGED <<variant, procState, weatherArbIntervalId,
                 weatherArbLastReading, armed, inflight, handlers,
                 sigPending, files, tickVars>>

Next ==
  \/ \E p \in Procs : Crash(p)
  \/ \E p \in Procs : HandleSignal(p)
  \/ \E p \in Procs : NormalExit(p)
  \/ \E p \in Procs : startWeatherArb(p)
  \/ \E p \in Procs : stopWeatherArb(p)
  \/ \E p \in Procs : getStatus(p)
  \/ \E p \in Procs : pluginStartWeatherArb(p)
  \/ \E p \in Procs : TimerFire(p)
  \/ \E p \in Procs : \E t \in TickIds : TickReading(p, t)
  \/ \E p \in Procs : \E t \in TickIds : TickError(p, t)
  \/ \E p \in Procs : StepTrunc(p)
  \/ \E p \in Procs : StepFill(p)
  \/ \E p \in Procs : StepRename(p)
  \/ \E p \in Procs : StepUnlink(p)
  \/ \E p \in Procs : StepExit(p)
  \/ \E p \in Procs : GsRead(p)
  \/ \E p \in Procs : GsPid(p)
  \/ \E p \in Procs : GsUnlinkPid(p)
  \/ \E p \in Procs : Return(p)
  \/ CliStartKill
  \/ \E c \in Procs : CliStartSpawn(c)

Spec == Init /\ [][Next]_vars

\* ---- the `scanner stop` CLI -------------------------------------------------

\* readDaemonPid(); a pid that names a live process gets SIGTERM (a stale pid
\* makes process.kill throw ESRCH, swallowed or not attempted).  Without a
\* pid the CLI spawns `pkill -f __daemon_weather`, whose signal is the
\* outside signal of HandleSignal / Crash.
CliStopKill ==
  /\ cliPc = "idle"
  /\ cliPc' = "stopStatus"
  /\ IF isDaemonRunning /\ ~sigPending[files["pid"].pid]
     THEN Deliver(files["pid"].pid)
     ELSE UNCHANGED <<variant, procState, mem, sigPending, queue, files>>
  /\ UNCHANGED tickVars

\* try { fs.unlinkSync(STATUS_FILE) } catch {}
CliStopUnlinkStatus ==
  /\ cliPc = "stopStatus"
  /\ cliPc' = "stopPid"
  /\ files' = [files EXCEPT !["status"] = Absent]
  /\ UNCHANGED <<variant, procState, mem, sigPending, queue, tickVars>>

\* try { fs.unlinkSync(PID_FILE) } catch {}, and the command returns.
CliStopUnlinkPid ==
  /\ cliPc = "stopPid"
  /\ cliPc' = "idle"
  /\ files' = [files EXCEPT !["pid"] = Absent]
  /\ UNCHANGED <<variant, procState, mem, sigPending, queue, tickVars>>

\* A deployment run from the command line: `scanner start` spawns the
\* daemon, `scanner stop` ends it, any other process asks for the status.
NextStop ==
  \/ \E p \in Procs : Crash(p)
  \/ \E p \in Procs : HandleSignal(p)
  \/ \E p \in Procs : NormalExit(p)
  \/ \E p \in Procs : getStatus(p)
  \/ \E p \in Procs : TimerFire(p)
  \/ \E p \in Procs : \E t \in TickIds : TickReading(p, t)
  \/ \E p \in Procs : \E t \in TickIds : TickError(p, t)
  \/ \E p \in Procs : StepTrunc(p)
  \/ \E p \in Procs : StepFill(p)
  \/ \E p \in Procs : StepRename(p)
  \/ \E p \in Procs : StepUnlink(p)
  \/ \E p \in Procs : StepExit(p)
  \/ \E p \in Procs : GsRead(p)
  \/ \E p \in Procs : GsPid(p)
  \/ \E p \in Procs : GsUnlinkPid(p)
  \/ \E p \in Procs : Return(p)
  \/ CliStartKill
  \/ \E c \in Procs : CliStartSpawn(c)
  \/ CliStopKill
  \/ CliStopUnlinkStatus
  \/ CliStopUnlinkPid

SpecStop == Init /\ [][NextStop]_vars

\* ---- one daemon whose ticks overlap --------------------------------------------

\* The daemon's main calls startWeatherArb once; no other process starts one.
StartOnce(p) == nStarts = 0 /\ startWeatherArb(p)

\* A daemon that keeps running (stopWeatherArb is not called) and the
\* processes that ask for its status.  The timer fires whatever is in flight,
\* and every tick resolves with a reading.
NextOverlap ==
  \/ \E p \in Procs : StartOnce(p)
  \/ \E p \in Procs : Crash(p)
  \/ \E p \in Procs : HandleSignal(p)
  \/ \E p \in Procs : NormalExit(p)
  \/ \E p \in Procs : getStatus(p)
  \/ \E p \in Procs : TimerFire(p)
  \/ \E p \in Procs : \E t \in TickIds : TickReading(p, t)
  \/ \E p \in Procs : StepTrunc(p)
  \/ \E p \in Procs : StepFill(p)
  \/ \E p \in Procs : StepRename(p)
  \/ \E p \in Procs : StepUnlink(p)
  \/ \E p \in Procs : StepExit(p)
  \/ \E p \in Procs : GsRead(p)
  \/ \E p \in Procs : GsPid(p)
  \/ \E p \in Procs : GsUnlinkPid(p)
  \/ \E p \in Procs : Return(p)

SpecOverlap == Init /\ [][NextOverlap]_vars

\* ---- a status file that ages ---------------------------------------------------

\* More than the staleness window passes without a write of the status file
\* (the interval is longer than the window, or the daemon hangs in a tick).
TimePasses ==
  /\ files["status"].k = "status"
  /\ ~files["status"].old
  /\ files' = [files EXCEPT !["status"].old = TRUE]
  /\ UNCHANGED <<variant, procState, mem, sigPending, queue, cliPc, tickVars>>

NextStale == NextOverlap \/ TimePasses

SpecStale == Init /\ [][NextStale]_vars

\* ---- a status file of foreign content -------------------------------------------

\* The data directory holds a status file that this program did not write.
InitForeign ==
  /\ variant \in Variants
  /\ procState = [p \in Procs |-> "alive"]
  /\ isOwnerProcess = [p \in Procs |-> FALSE]
  /\ weatherArbIntervalId = [p \in Procs |-> 0]
  /\ weatherArbLastReading = [p \in Procs |-> 0]
  /\ armed = [p \in Procs |-> {}]
  /\ inflight = [p \in Procs |-> {}]
  /\ nStarts = 0
  /\ nTicks = 0
  /\ handlers = [p \in Procs |-> 0]
  /\ sigPending = [p \in Procs |-> FALSE]
  /\ queue = [p \in Procs |-> <<>>]
  /\ \E shape \in ForeignShapes :
       files = [f \in FileNames |->
                  IF f = "status" THEN Foreign(shape) ELSE Absent]
  /\ cliPc = "idle"
  /\ config = [dryRun |-> TRUE, tradeAmountUsdc |-> 0, maxPositionUsdc |-> 0]
  /\ tickPc = "off"
  /\ TickLocals
  /\ scan = ScanOff
  /\ clob = ClobInit
  /\ l2 = L2Init
  /\ faults = Untracked
  /\ tickNo = 1

SpecForeign == InitForeign /\ [][NextOverlap]_vars

\* ---- runPolymarketWeatherArbTick (src/unnamed/part_003) --------------------

Min(a, b) == IF a <= b THEN a ELSE b

Bump(c, fs) == [f \in ExternalCalls |-> IF f \in fs THEN c[f] + 1 ELSE c[f]]

Configs ==
  [dryRun : BOOLEAN, tradeAmountUsdc : 0..MaxUsdc, maxPositionUsdc : 0..MaxUsdc]

\* Ask prices of a target bracket, in cents.
AskPrices == {5, 45}

SkipReasons == {"no_market", "market_closing_soon", "no_edge"}

\* What scanCity can resolve to: a skip without target bracket, or a target
\* bracket (named by its YES token id) without skip reason.
ScanResults ==
  {[skippedReason |-> r, targetBracket |-> 0, askPrice |-> 0] :
     r \in SkipReasons}
    \cup {[skippedReason |-> "null", targetBracket |-> t, askPrice |-> a] :
            t \in Tokens, a \in AskPrices}

\* scanCity rejected.
ScanThrew == [skippedReason |-> "threw", targetBracket |-> 0, askPrice |-> 0]

\* What a placeOrder call can meet: signTypedData throws, getApiCreds throws,
\* the response is non-2xx, it is 2xx with an errorMsg, it is 2xx with an
\* orderID, or it is 2xx with neither.
OrderOutcomes ==
  {"signThrows", "credsThrow", "non2xx", "errorMsg", "issued", "noOrderId"}

\* One tick, for every configuration.
InitTick ==
  /\ variant = "json"
  /\ DaemonInit
  /\ config \in Configs
  /\ tickPc = "wallet"
  /\ TickLocals
  /\ scan = ScanOff
  /\ clob = ClobInit
  /\ l2 = L2Init
  /\ faults = Untracked
  /\ tickNo = 1

\* A tick that loads the wallet whatever the mode.
loadsWalletAlways == TRUE

\* const wallet = config.dryRun ? null : await loadEvmWallet(config.walletName)
loadsWallet == ~config.dryRun

\* A tick-level catch that lets the exception out of the tick.
afterTickCatchRethrow == "rejected"

\* } catch (err) { log(`tick error: ...`) }  then  onReading(readings)
afterTickCatch == "onReading"

\* A rejection here is caught by the tick-level catch: no Reading is produced.
TickLoadWallet(ok) ==
  /\ tickPc = "wallet"
  /\ IF loadsWallet
     THEN /\ calls' = Bump(calls, {"loadEvmWallet"})
          /\ wallet' = IF ok THEN "loaded" ELSE "unset"
          /\ tickPc' = IF ok THEN "openOrders" ELSE afterTickCatch
     ELSE /\ wallet' = "null"
          /\ tickPc' = "openOrders"
          /\ UNCHANGED calls
  /\ UNCHANGED <<daemonVars, config, positionedTokenIds, usdcBalance, cityIdx,
                 reading, readings, orders, scanned, scan, clob, l2, faults, tickNo>>

\* The record of a failed fetch, where failures are recorded.
Fault(f) == IF faults = Untracked THEN faults ELSE faults \cup {f}

\* A failed open-orders query taken for a position on every token.
openOrdersOnFailureAll == Tokens

\* getOpenOrders(wallet).catch(() => [])
openOrdersOnFailure == {}

\* A failed balance fetch taken for the largest balance.
balanceOnFailureUnlimited == MaxUsdc

\* getUsdcBalance(wallet.address).catch(() => 0)
balanceOnFailure == 0

\* const openOrders = wallet ? await getOpenOrders(wallet).catch(() => []) : []
\* getOpenOrders begins with getApiCreds(wallet).
TickOpenOrders(ok, open) ==
  /\ tickPc = "openOrders"
  /\ IF wallet = "loaded"
     THEN /\ calls' = Bump(calls, {"getOpenOrders", "getApiCreds"})
          /\ positionedTokenIds' = IF ok THEN open ELSE openOrdersOnFailure
          /\ faults' = IF ok THEN faults ELSE Fault("getOpenOrders")
     ELSE /\ positionedTokenIds' = {}
          /\ UNCHANGED <<calls, faults>>
  /\ tickPc' = "balance"
  /\ UNCHANGED <<daemonVars, config, wallet, usdcBalance, cityIdx, reading,
                 readings, orders, scanned, scan, clob, l2, tickNo>>

\* const usdcBalance = wallet ? await getUsdcBalance(...).catch(() => 0) : 0
TickBalance(ok, b) ==
  /\ tickPc = "balance"
  /\ IF wallet = "loaded"
     THEN /\ calls' = Bump(calls, {"getUsdcBalance"})
          /\ usdcBalance' = IF ok THEN b ELSE balanceOnFailure
          /\ faults' = IF ok THEN faults ELSE Fault("getUsdcBalance")
     ELSE /\ usdcBalance' = 0
          /\ UNCHANGED <<calls, faults>>
  /\ tickPc' = "city"
  /\ UNCHANGED <<daemonVars, config, wallet, positionedTokenIds, cityIdx,
                 reading, readings, orders, scanned, scan, clob, l2, tickNo>>

\* A trade size that ignores the position cap.
tradeSizeUncapped == config.tradeAmountUsdc

\* const tradeSize = Math.min(config.tradeAmountUsdc, config.maxPositionUsdc)
tradeSize == Min(config.tradeAmountUsdc, config.maxPositionUsdc)

\* A balance guard that is off by one.
insufficientUsdcOffByOne(balance, size) == balance + 1 < size

\* if (usdcBalance < tradeSize)
insufficientUsdc(balance, size) == balance < size

\* A position check that never finds a position.
alreadyPositionedNever(token) == FALSE

\* if (positionedTokenIds.has(best.yesTokenId))
alreadyPositioned(token) == token \in positionedTokenIds

\* A per-city catch that gives up the rest of the loop.
afterCityCatchAbort == "onReading"

\* catch (err) { reading.skippedReason = "error"; ... } is inside the loop
\* body: control falls through to readings.push(reading) and the next city.
afterCityCatch == "city"

\* readings.push(reading); on to the next city.
Push(r) ==
  /\ readings' = Append(readings, r)
  /\ cityIdx' = cityIdx + 1
  /\ reading' = NewReading(0)

\* The Reading of city c in a dry-run tick whose scanCity call ends as res:
\* wallet is null, so openOrders is [] and no token is positioned, and the
\* balance guard and placeOrder are in the branch that is not taken.
DryRunReading(c, res) ==
  IF res = ScanThrew
  THEN [NewReading(c) EXCEPT !.skippedReason = "error"]
  ELSE [NewReading(c) EXCEPT !.targetBracket = res.targetBracket,
                             !.skippedReason = res.skippedReason]

\* One turn of `for (const city of config.cities)`, up to the push of the
\* city's Reading or up to the await of placeOrder.
TickScanCity(throws, res) ==
  /\ tickPc = "city" /\ cityIdx \in Cities
  /\ scanned' = Append(scanned, IF throws THEN ScanThrew ELSE res)
  /\ LET r0 == NewReading(cityIdx)
         r1 == [r0 EXCEPT !.targetBracket = res.targetBracket]
     IN  IF throws
         THEN /\ Push([r0 EXCEPT !.skippedReason = "error"])
              /\ calls' = Bump(calls, {"scanCity"})
              /\ tickPc' = afterCityCatch
              /\ UNCHANGED orders
         ELSE IF res.skippedReason # "null"
         THEN /\ Push([r1 EXCEPT !.skippedReason = res.skippedReason])
              /\ calls' = Bump(calls, {"scanCity"})
              /\ UNCHANGED <<tickPc, orders>>
         ELSE IF alreadyPositioned(res.targetBracket)
         THEN /\ Push([r1 EXCEPT !.skippedReason = "already_positioned"])
              /\ calls' = Bump(calls, {"scanCity"})
              /\ UNCHANGED <<tickPc, orders>>
         ELSE IF config.dryRun
         THEN /\ Push(r1)
              /\ calls' = Bump(calls, {"scanCity"})
              /\ UNCHANGED <<tickPc, orders>>
         ELSE IF insufficientUsdc(usdcBalance, tradeSize)
         THEN /\ Push([r1 EXCEPT !.skippedReason = "insufficient_usdc"])
              /\ calls' = Bump(calls, {"scanCity"})
              /\ UNCHANGED <<tickPc, orders>>
         ELSE /\ reading' = r1
              /\ calls' = Bump(calls, {"scanCity", "placeOrder"})
              /\ orders' = orders \cup {[tick |-> tickNo,
                                         city |-> cityIdx,
                                         token |-> res.targetBracket,
                                         price |-> res.askPrice,
                                         size |-> tradeSize,
                                         outcome |-> "pending",
                                         returned |-> "pending",
                                         error |-> "none"]}
              /\ tickPc' = "placeOrder"
              /\ UNCHANGED <<readings, cityIdx>>
  /\ UNCHANGED <<daemonVars, config, wallet, positionedTokenIds, usdcBalance,
                 scan, clob, l2, faults, tickNo>>

\* A placeOrder that takes only the HTTP status for a refusal.
rejectsOnStatusOnly(out) == out = "non2xx"

\* if (!res.ok) throw new Error(`CLOB order failed (...): ${await res.text()}`)
\* if (data.errorMsg) throw new Error(`CLOB order rejected: ${data.errorMsg}`)
rejects(out) == out \in {"non2xx", "errorMsg"}

\* An order id taken from the response as it is: none when the field is
\* missing.
placedOrderIdNoFallback(out) == IF out = "issued" THEN "issued" ELSE "null"

\* orderId: data.orderID ?? "unknown"
placedOrderId(out) == IF out = "issued" THEN "issued" ELSE "unknown"

\* placeOrder: it throws (error says whether the message is the server's) or
\* returns a PlacedOrder.
placeOrder(out) ==
  IF out \in {"signThrows", "credsThrow"}
  THEN [threw |-> TRUE, orderId |-> "null", error |-> "other"]
  ELSE IF rejects(out)
  THEN [threw |-> TRUE, orderId |-> "null", error |-> "server"]
  ELSE [threw |-> FALSE, orderId |-> placedOrderId(out), error |-> "none"]

\* await placeOrder(wallet!, ...) settles: reading.orderId = order.orderId,
\* or the per-city catch sets skippedReason = "error".
TickPlaceOrder(out) ==
  /\ tickPc = "placeOrder"
  /\ calls' = IF out = "signThrows" THEN calls ELSE Bump(calls, {"getApiCreds"})
  /\ LET po == placeOrder(out)
     IN  /\ Push(IF po.threw THEN [reading EXCEPT !.skippedReason = "error"]
                 ELSE [reading EXCEPT !.orderId = po.orderId])
         /\ orders' = {IF o.city = cityIdx /\ o.tick = tickNo
                       THEN [o EXCEPT !.outcome = out,
                                      !.returned = IF po.threw THEN "threw"
                                                   ELSE po.orderId,
                                      !.error = po.error]
                       ELSE o : o \in orders}
         /\ tickPc' = IF po.threw THEN afterCityCatch ELSE "city"
  /\ UNCHANGED <<daemonVars, config, wallet, positionedTokenIds, usdcBalance,
                 scanned, scan, clob, l2, faults, tickNo>>

\* The loop is over.
TickLoopEnd ==
  /\ tickPc = "city" /\ cityIdx \notin Cities
  /\ tickPc' = "onReading"
  /\ UNCHANGED <<daemonVars, config, wallet, positionedTokenIds, usdcBalance,
                 cityIdx, reading, readings, calls, orders, scanned, scan, clob, l2, faults, tickNo>>

\* onReading(readings) is the last statement, outside both try blocks: when
\* the callback returns the tick's promise resolves, when it throws the
\* promise rejects.
TickOnReading(throws) ==
  /\ tickPc = "onReading"
  /\ calls' = Bump(calls, {"onReading"})
  /\ tickPc' = IF throws THEN "rejected" ELSE "done"
  /\ UNCHANGED <<daemonVars, config, wallet, positionedTokenIds, usdcBalance,
                 cityIdx, reading, readings, orders, scanned, scan, clob, l2, faults, tickNo>>

NextTick ==
  \/ \E ok \in BOOLEAN : TickLoadWallet(ok)
  \/ \E ok \in BOOLEAN : \E open \in SUBSET Tokens : TickOpenOrders(ok, open)
  \/ \E ok \in BOOLEAN : \E b \in 0..MaxUsdc : TickBalance(ok, b)
  \/ \E throws \in BOOLEAN : \E res \in ScanResults : TickScanCity(throws, res)
  \/ \E out \in OrderOutcomes : TickPlaceOrder(out)
  \/ TickLoopEnd
  \/ \E throws \in BOOLEAN : TickOnReading(throws)

SpecTick == InitTick /\ [][NextTick]_vars

\* The timer of the strategy manager calls runPolymarketWeatherArbTick again
\* with the same config: every local of the tick starts afresh, the orders
\* placed so far stay placed.
TickAgain ==
  /\ tickPc = "done" /\ tickNo < MaxTicks
  /\ tickNo' = tickNo + 1
  /\ tickPc' = "wallet"
  /\ wallet' = "unset"
  /\ positionedTokenIds' = {}
  /\ usdcBalance' = 0
  /\ cityIdx' = 1
  /\ reading' = NewReading(0)
  /\ readings' = <<>>
  /\ calls' = [f \in ExternalCalls |-> 0]
  /\ scanned' = <<>>
  /\ UNCHANGED <<daemonVars, config, orders, scan, clob, l2, faults>>

NextTicks ==
  \/ NextTick
  \/ TickAgain

\* A sequence of ticks.
SpecTicks == InitTick /\ [][NextTicks]_vars

\* Every awaited call settles and the event loop runs the continuation: a
\* tick that can take a step eventually takes one.
SpecTickFair == SpecTick /\ WF_vars(NextTick)

\* The city whose network calls are arbitrarily slow or never complete.
SlowCity == 1

\* The tick is waiting on a network call made for SlowCity: scanCity, or
\* placeOrder for its bracket.
AwaitsSlowCity == tickPc \in {"city", "placeOrder"} /\ cityIdx = SlowCity

\* Every awaited call settles except those made for SlowCity, which may stay
\* pending for ever.
SpecTickSlow == SpecTick /\ WF_vars(NextTick /\ ~AwaitsSlowCity)

\* One live tick in which the failures of the two guarded fetches are
\* recorded.
InitTickFaults ==
  /\ variant = "json"
  /\ DaemonInit
  /\ config \in {c \in Configs : ~c.dryRun}
  /\ tickPc = "wallet"
  /\ TickLocals
  /\ scan = ScanOff
  /\ clob = ClobInit
  /\ l2 = L2Init
  /\ faults = NoFault
  /\ tickNo = 1

SpecTickFaults == InitTickFaults /\ [][NextTick]_vars

\* ---- scanCity (src/unnamed/part_006) ---------------------------------------
\* Prices, fair values and edges are in cents; times are in minutes.

\* fairValue of a bracket as bracketFairValue computes it from lo, hi, the
\* forecast and sigma.
FairValues == {30, 60}

\* config.minEdge, config.minFairValue
MinEdges == {0, 20}
MinFairValues == {40}

\* closeTimeUtc - Date.now() of a bracket: either side of the 30-minute buffer.
CloseMinutes == {29, 30}

\* A PolymarketBracket as fetchPolymarketWeatherBrackets builds it.
Brackets ==
  [isTerminal : BOOLEAN, acceptingOrders : BOOLEAN, close : CloseMinutes,
   fairValue : FairValues]

\* The lists the Gamma API call can resolve to; yesTokenId is the position.
BracketLists == UNION {[1..n -> Brackets] : n \in 0..MaxBrackets}

\* One scanCity call, for every minEdge / minFairValue.
InitScan ==
  /\ variant = "json"
  /\ DaemonInit
  /\ config = [dryRun |-> TRUE, tradeAmountUsdc |-> 0, maxPositionUsdc |-> 0]
  /\ tickPc = "off"
  /\ TickLocals
  /\ clob = ClobInit
  /\ l2 = L2Init
  /\ faults = Untracked
  /\ tickNo = 1
  /\ \E me \in MinEdges, mf \in MinFairValues :
       scan = [ScanOff EXCEPT !.pc = "forecast", !.minEdge = me,
                              !.minFairValue = mf]

ScanUnchanged ==
  UNCHANGED <<daemonVars, config, tickPc, wallet, positionedTokenIds,
              usdcBalance, cityIdx, reading, readings, calls, orders, scanned,
              clob, l2, faults, tickNo>>

\* const forecast = await fetchOpenMeteoForecast(city): non-2xx or missing
\* temperature data rejects, and scanCity with it.
ScanForecast(ok) ==
  /\ scan.pc = "forecast"
  /\ scan' = [scan EXCEPT !.pc = IF ok THEN "brackets" ELSE "threw"]
  /\ ScanUnchanged

RECURSIVE MinClose(_)
\* Math.min(...closeTimes) - Date.now()
MinClose(brs) ==
  IF Len(brs) = 1 THEN brs[1].close
  ELSE Min(brs[1].close, MinClose(Tail(brs)))

\* A time guard that never fires.
closingSoonNever(minutes) == FALSE

\* if (msUntilClose < 30 * 60 * 1000)
closingSoon(minutes) == minutes < 30

\* const tradeable = rawBrackets.filter(b => !b.isTerminal && b.acceptingOrders)
tradeable(brs) ==
  {i \in 1..Len(brs) : ~brs[i].isTerminal /\ brs[i].acceptingOrders}

Skipped(reason) ==
  [skippedReason |-> reason, targetBracket |-> 0, allBrackets |-> <<>>]

\* PricedBracket: { ...b, askPrice, fairValue, edge: fairValue - askPrice }
Priced(brs, i, ask) ==
  [yesTokenId |-> i, askPrice |-> ask, fairValue |-> brs[i].fairValue,
   edge |-> brs[i].fairValue - ask]

RECURSIVE MapFilter(_, _, _)
\* brackets.map(...).filter(b => b !== null): the brackets from position i on
\* whose ask price is known, in the order of the list.
MapFilter(brs, asks, i) ==
  IF i > Len(brs) THEN <<>>
  ELSE IF asks[i] \in {Unfetched, NoPrice} THEN MapFilter(brs, asks, i + 1)
  ELSE <<Priced(brs, i, asks[i])>> \o MapFilter(brs, asks, i + 1)

\* A comparator that sorts by ascending edge.
edgeOrderAscending(a, b) == a.edge <= b.edge

\* (a, b) => b.edge - a.edge: a stays ahead of b.
edgeOrder(a, b) == a.edge >= b.edge

RECURSIVE InsertByEdge(_, _)
InsertByEdge(b, sorted) ==
  IF sorted = <<>> THEN <<b>>
  ELSE IF edgeOrder(Head(sorted), b)
       THEN <<Head(sorted)>> \o InsertByEdge(b, Tail(sorted))
       ELSE <<b>> \o sorted

RECURSIVE SortByEdge(_)
\* .sort((a, b) => b.edge - a.edge); Array.prototype.sort is stable.
SortByEdge(s) ==
  IF s = <<>> THEN <<>>
  ELSE InsertByEdge(s[Len(s)], SortByEdge(SubSeq(s, 1, Len(s) - 1)))

\* A pricing that gives up on every bracket once one price is missing.
priceBracketsAllOrNothing(brs, asks) ==
  IF \E i \in 1..Len(brs) : asks[i] = NoPrice THEN <<>>
  ELSE SortByEdge(MapFilter(brs, asks, 1))

\* priceBrackets, once Promise.all has every ask price.
priceBrackets(brs, asks) == SortByEdge(MapFilter(brs, asks, 1))

RECURSIVE Find(_, _, _)
\* priced.find(b => b.edge >= minEdge && b.fairValue >= minFairValue) ?? null
Find(priced, minEdge, minFairValue) ==
  IF priced = <<>> THEN 0
  ELSE IF Head(priced).edge >= minEdge /\ Head(priced).fairValue >= minFairValue
       THEN Head(priced).yesTokenId
       ELSE Find(Tail(priced), minEdge, minFairValue)

\* Steps 5 and the return of scanCity.
Select(brs, asks, minEdge, minFairValue) ==
  LET priced == priceBrackets(brs, asks)
      best == Find(priced, minEdge, minFairValue)
  IN  [skippedReason |-> IF best # 0 THEN "null" ELSE "no_edge",
       targetBracket |-> best, allBrackets |-> priced]

\* const rawBrackets = await fetchPolymarketWeatherBrackets(city, date), then
\* the no_market and close-time returns, then priceBrackets starts one
\* fetchAskPrice per tradeable bracket.
ScanBrackets(ok, brs) ==
  /\ scan.pc = "brackets"
  /\ scan' =
       IF ~ok THEN [scan EXCEPT !.pc = "threw"]
       ELSE IF Len(brs) = 0
       THEN [scan EXCEPT !.pc = "returned", !.rawBrackets = brs,
                         !.result = Skipped("no_market")]
       ELSE IF closingSoon(MinClose(brs))
       THEN [scan EXCEPT !.pc = "returned", !.rawBrackets = brs,
                         !.minutesUntilClose = MinClose(brs),
                         !.result = Skipped("market_closing_soon")]
       ELSE IF tradeable(brs) = {}
       THEN [scan EXCEPT !.pc = "returned", !.rawBrackets = brs,
                         !.minutesUntilClose = MinClose(brs),
                         !.askPrices = [i \in 1..Len(brs) |-> Unfetched],
                         !.result = Select(brs, [i \in 1..Len(brs) |-> Unfetched],
                                           scan.minEdge, scan.minFairValue)]
       ELSE [scan EXCEPT !.pc = "pricing", !.rawBrackets = brs,
                         !.minutesUntilClose = MinClose(brs),
                         !.askPrices = [i \in 1..Len(brs) |-> Unfetched]]
  /\ ScanUnchanged

\* How one fetchAskPrice can end.
AskOutcomes == {"non2xx", "unparsable", "networkError", "price"}

\* fetchAskPrice: null unless a 2xx response carries a parsable price.
fetchAskPrice(outcome, price) == IF outcome = "price" THEN price ELSE NoPrice

\* One of the concurrent fetchAskPrice calls settles; the last one to settle
\* resolves Promise.all and scanCity runs to its return.
ScanAskPrice(i, outcome, price) ==
  /\ scan.pc = "pricing"
  /\ i \in tradeable(scan.rawBrackets) /\ scan.askPrices[i] = Unfetched
  /\ LET asks == [scan.askPrices EXCEPT ![i] = fetchAskPrice(outcome, price)]
         all == \A j \in tradeable(scan.rawBrackets) : asks[j] # Unfetched
     IN  scan' = IF all
                 THEN [scan EXCEPT !.pc = "returned", !.askPrices = asks,
                                   !.result = Select(scan.rawBrackets, asks,
                                                     scan.minEdge,
                                                     scan.minFairValue)]
                 ELSE [scan EXCEPT !.askPrices = asks]
  /\ ScanUnchanged

NextScan ==
  \/ \E ok \in BOOLEAN : ScanForecast(ok)
  \/ \E ok \in BOOLEAN : \E brs \in BracketLists : ScanBrackets(ok, brs)
  \/ \E i \in 1..MaxBrackets : \E o \in AskOutcomes : \E a \in AskPrices :
       ScanAskPrice(i, o, a)

SpecScan == InitScan /\ [][NextScan]_vars

\* ---- forecastSigmaF (src/unnamed/part_006) --------------------------------------

\* hoursUntilClose is counted in quarters of an hour and sigma in 96ths of a
\* degree Fahrenheit, so that (h - 6) / 24 and every value on the grid is
\* exact.
HourUnit == 4
SigmaUnit == 96

\* msUntilClose / 3_600_000 of two calls, on the quarter-hour grid.
HourGrid == 0..(MaxHours * HourUnit)

\* A slope of (h - 6) / 24 without the factor 2.
forecastSigmaFHalfSlope(h) ==
  IF h <= 6 * HourUnit THEN 2 * SigmaUnit
  ELSE IF h >= 30 * HourUnit THEN 4 * SigmaUnit
  ELSE 2 * SigmaUnit + ((h - 6 * HourUnit) * SigmaUnit) \div (24 * HourUnit)

\* if (h <= 6) return 2; if (h >= 30) return 4;
\* return 2 + ((h - 6) / 24) * 2
forecastSigmaF(h) ==
  IF h <= 6 * HourUnit THEN 2 * SigmaUnit
  ELSE IF h >= 30 * HourUnit THEN 4 * SigmaUnit
  ELSE 2 * SigmaUnit
         + (((h - 6 * HourUnit) * SigmaUnit) \div (24 * HourUnit)) * 2

\* Two scanCity calls that have got to step 3 with their times to close.
InitSigma ==
  /\ variant = "json"
  /\ DaemonInit
  /\ config = [dryRun |-> TRUE, tradeAmountUsdc |-> 0, maxPositionUsdc |-> 0]
  /\ tickPc = "off"
  /\ TickLocals
  /\ clob = ClobInit
  /\ l2 = L2Init
  /\ faults = Untracked
  /\ tickNo = 1
  /\ \E h1 \in HourGrid, h2 \in HourGrid :
       scan = [pc |-> "hoursUntilClose", h1 |-> h1, h2 |-> h2,
               sigmaF1 |-> 0, sigmaF2 |-> 0]

\* const sigmaF = forecastSigmaF(hoursUntilClose), in both calls.
ScanSigma ==
  /\ scan.pc = "hoursUntilClose"
  /\ scan' = [scan EXCEPT !.pc = "sigmaF",
                          !.sigmaF1 = forecastSigmaF(scan.h1),
                          !.sigmaF2 = forecastSigmaF(scan.h2)]
  /\ ScanUnchanged

SpecSigma == InitSigma /\ [][ScanSigma]_vars

\* ---- erf, normalCDF, bracketFairValue (src/unnamed/part_006) --------------------

\* Infinity, the open end of a terminal bracket; -Infinity is its negation.
\* Temperatures are degrees Fahrenheit, far below it.
PosInf == 1000
NegInf == 0 - PosInf

isFinite(x) == x # PosInf /\ x # NegInf

\* Probabilities are counted in halves of a millionth: 1 is ProbOne and
\* 0.5 * (1 + erf) is ProbHalf + erf in millionths.
ProbHalf == 1000000
ProbOne == 2 * ProbHalf

\* sigma, in degrees: the two ends of forecastSigmaF's range and the middle.
Sigmas == {2, 3, 4}

\* The magnitude of erf(z), in millionths, at z = (d / 2) / (sigma * SQRT2)
\* for d = 0, 1, ... half degrees: the Abramowitz & Stegun polynomial of the
\* source, 1 - poly(t) * exp(-z * z) with t = 1 / (1 + 0.3275911 * z),
\* evaluated in double precision and rounded to the millionth.
erfMagnitude ==
  [sigma \in Sigmas |->
     IF sigma = 2 THEN
       <<
      0, 197413, 382925, 546745, 682689, 788700, 866386, 919882, 954500,
      975551, 987581, 994040, 997300, 998846, 999535, 999823 >>
     ELSE IF sigma = 3 THEN
       <<
      0, 132368, 261117, 382925, 495015, 595343, 682689, 756655, 817577,
      866386, 904419, 933247, 954500, 969740, 980369, 987581 >>
     ELSE
       <<
      0, 99477, 197413, 292339, 382925, 468029, 546745, 618426, 682689,
      739411, 788700, 830868, 866386, 895837, 919882, 939207 >>]

\* erf((x - mu) / (sigma * Math.SQRT2)) with x - mu = d / 2:
\* sign = x < 0 ? -1 : 1;  x = Math.abs(x);  return sign * (1 - poly * exp)
erf(d, sigma) ==
  LET sign == IF d < 0 THEN 0 - 1 ELSE 1
      abs == IF d < 0 THEN 0 - d ELSE d
  IN  sign * erfMagnitude[sigma][abs + 1]

\* if (!isFinite(x)) return x > 0 ? 1 : 0
\* return 0.5 * (1 + erf((x - mu) / (sigma * Math.SQRT2)))
\* x and mu are in half degrees.
normalCDF(x, mu, sigma) ==
  IF ~isFinite(x) THEN (IF x > 0 THEN ProbOne ELSE 0)
  ELSE ProbHalf + erf(x - mu, sigma)

\* lo - 0.5 and hi + 0.5 in half degrees; an infinite end stays infinite.
HalfDegrees(x, half) == IF isFinite(x) THEN 2 * x + half ELSE x

loCDF(lo, mu, sigma) ==
  IF lo = NegInf THEN 0 ELSE normalCDF(HalfDegrees(lo, 0 - 1), mu, sigma)

hiCDF(hi, mu, sigma) ==
  IF hi = PosInf THEN ProbOne ELSE normalCDF(HalfDegrees(hi, 1), mu, sigma)

Max(a, b) == IF a >= b THEN a ELSE b

\* The difference of the two CDF terms, returned as it is.
bracketFairValueUnclamped(lo, hi, mu, sigma) ==
  hiCDF(hi, mu, sigma) - loCDF(lo, mu, sigma)

\* return Math.max(0, Math.min(1, hiCDF - loCDF))
bracketFairValue(lo, hi, mu, sigma) ==
  Max(0, Min(ProbOne, hiCDF(hi, mu, sigma) - loCDF(lo, mu, sigma)))

\* lo and hi of a bracket as parseBracketRange gives them.
Temps == {34, 37, 39, 40, 41, 42, 44, 47}
Ends == Temps \cup {NegInf, PosInf}

\* forecast.forecastHighF, in half degrees: 40, 40.5 and 41.
Means == {80, 81, 82}

\* priceBrackets about to price the brackets [lo, hi], [lo2, hi] and
\* [lo, hi2] of one city.
InitFairValue ==
  /\ variant = "json"
  /\ DaemonInit
  /\ config = [dryRun |-> TRUE, tradeAmountUsdc |-> 0, maxPositionUsdc |-> 0]
  /\ tickPc = "off"
  /\ TickLocals
  /\ clob = ClobInit
  /\ l2 = L2Init
  /\ faults = Untracked
  /\ tickNo = 1
  /\ \E lo \in Ends, hi \in Ends, lo2 \in Ends, hi2 \in Ends,
        mu \in Means, sigma \in Sigmas :
       scan = [pc |-> "priceBrackets", lo |-> lo, hi |-> hi, lo2 |-> lo2,
               hi2 |-> hi2, mu |-> mu, sigmaF |-> sigma, loCDF |-> 0,
               hiCDF |-> 0, fairValue |-> 0, fairValueLo2 |-> 0,
               fairValueHi2 |-> 0]

\* const fairValue = bracketFairValue(b.lo, b.hi, mu, sigma), per bracket.
ScanFairValue ==
  /\ scan.pc = "priceBrackets"
  /\ scan' =
       [scan EXCEPT
          !.pc = "fairValue",
          !.loCDF = loCDF(scan.lo, scan.mu, scan.sigmaF),
          !.hiCDF = hiCDF(scan.hi, scan.mu, scan.sigmaF),
          !.fairValue = bracketFairValue(scan.lo, scan.hi, scan.mu, scan.sigmaF),
          !.fairValueLo2 =
             bracketFairValue(scan.lo2, scan.hi, scan.mu, scan.sigmaF),
          !.fairValueHi2 =
             bracketFairValue(scan.lo, scan.hi2, scan.mu, scan.sigmaF)]
  /\ ScanUnchanged

SpecFairValue == InitFairValue /\ [][ScanFairValue]_vars

\* ---- getApiCreds (src/src/polymarketClob.ts) ---------------------------------
\* The calls are those of getApiCreds itself and of getOpenOrders, placeOrder
\* and cancelOrder, which all obtain their credentials through it, for one
\* wallet address in one process.  Each await is a point where the other
\* calls of the process can run.

CallIds == 1..MaxCalls
Creds == 1..NumCreds

InitClob ==
  /\ variant = "json"
  /\ DaemonInit
  /\ config = [dryRun |-> TRUE, tradeAmountUsdc |-> 0, maxPositionUsdc |-> 0]
  /\ tickPc = "off"
  /\ TickLocals
  /\ scan = ScanOff
  /\ clob = ClobInit
  /\ l2 = L2Init
  /\ faults = Untracked
  /\ tickNo = 1

ClobUnchanged ==
  UNCHANGED <<daemonVars, config, tickPc, wallet, positionedTokenIds,
              usdcBalance, cityIdx, reading, readings, calls, orders, scanned,
              scan, l2, faults, tickNo>>

\* const cached = credsCache.get(wallet.address); if (cached) return cached;
\* otherwise the call goes on to await wallet.signTypedData(...).
ClobStart(c) ==
  /\ clob.call[c].pc = "idle"
  /\ clob' = IF clob.credsCache # 0
             THEN [clob EXCEPT !.call[c] = [pc |-> "returned",
                                            creds |-> clob.credsCache]]
             ELSE [clob EXCEPT !.call[c].pc = "signing"]
  /\ ClobUnchanged

\* signTypedData settles: on success the L1 request is sent with fetch.
ClobSigned(c, ok) ==
  /\ clob.call[c].pc = "signing"
  /\ clob' = IF ok
             THEN [clob EXCEPT !.call[c].pc = "fetching",
                               !.sent = @ + 1,
                               !.resent = @ \/ clob.completed]
             ELSE [clob EXCEPT !.call[c].pc = "threw"]
  /\ ClobUnchanged

\* fetch settles: a network error or a non-2xx status throws, a 2xx status
\* goes on to await res.json().
ClobFetched(c, ok) ==
  /\ clob.call[c].pc = "fetching"
  /\ clob' = [clob EXCEPT !.call[c].pc = IF ok THEN "parsing" ELSE "threw"]
  /\ ClobUnchanged

\* A handshake that caches whatever the body held.
cacheAfterParseAlways(complete, k, old) == k

\* if (!data.apiKey || !data.secret || !data.passphrase) throw ...  comes
\* before credsCache.set(wallet.address, creds): the entry after the step.
cacheAfterParse(complete, k, old) == IF complete THEN k ELSE old

\* res.json() settles: a body lacking apiKey, secret or passphrase throws,
\* otherwise credsCache.set(wallet.address, creds); return creds.
ClobParsed(c, complete, k) ==
  /\ clob.call[c].pc = "parsing"
  /\ clob' = IF complete
             THEN [clob EXCEPT !.call[c] = [pc |-> "returned", creds |-> k],
                               !.credsCache = cacheAfterParse(complete, k, @),
                               !.completed = TRUE,
                               !.firstCached = IF @ = 0 THEN k ELSE @]
             ELSE [clob EXCEPT !.call[c].pc = "threw",
                               !.credsCache = cacheAfterParse(complete, k, @)]
  /\ ClobUnchanged

NextClob ==
  \/ \E c \in CallIds : ClobStart(c)
  \/ \E c \in CallIds : \E ok \in BOOLEAN : ClobSigned(c, ok)
  \/ \E c \in CallIds : \E ok \in BOOLEAN : ClobFetched(c, ok)
  \/ \E c \in CallIds : \E complete \in BOOLEAN : \E k \in Creds :
       ClobParsed(c, complete, k)

SpecClob == InitClob /\ [][NextClob]_vars

\* ---- l2Headers and its callers (src/src/polymarketClob.ts) -------------------
\* A string is the sequence of its pieces, concatenation is \o.

\* String(Date.now() / 1000) at the moment of a call.
Timestamps == {<<"1730.0">>, <<"1730.5">>}

\* JSON.stringify({ order: ..., owner, orderType }) of two orders, and
\* JSON.stringify({ orderID }) of two order ids.
OrderBodies == {<<"{order:", "A", "}">>, <<"{order:", "B", "}">>}
CancelBodies == {<<"{orderID:", "A", "}">>, <<"{orderID:", "B", "}">>}

\* The credentials getApiCreds resolved to.
L2Creds == [apiKey |-> "key", apiSecret |-> "secret", passphrase |-> "pass"]

\* method.toUpperCase()
toUpperCase(m) ==
  CASE m = "get" -> "GET"
    [] m = "post" -> "POST"
    [] m = "delete" -> "DELETE"
    [] OTHER -> m

\* createHmac("sha256", secret).update(msg).digest("base64"): a value that
\* determines, and is determined by, the secret and the message.
Hmac(secret, msg) == [secret |-> secret, msg |-> msg]

\* A signed message that leaves the body out.
l2MessageWithoutBody(timestamp, method, path, body) ==
  timestamp \o <<toUpperCase(method)>> \o path

\* const msg = timestamp + method.toUpperCase() + path + body
l2Message(timestamp, method, path, body) ==
  timestamp \o <<toUpperCase(method)>> \o path \o body

\* l2Headers(creds, walletAddress, method, path, body = "") at time timestamp
l2Headers(creds, method, path, body, timestamp) ==
  [signature |-> Hmac(creds.apiSecret, l2Message(timestamp, method, path, body)),
   timestamp |-> timestamp,
   apiKey |-> creds.apiKey,
   passphrase |-> creds.passphrase]

InitL2 ==
  /\ variant = "json"
  /\ DaemonInit
  /\ config = [dryRun |-> TRUE, tradeAmountUsdc |-> 0, maxPositionUsdc |-> 0]
  /\ tickPc = "off"
  /\ TickLocals
  /\ scan = ScanOff
  /\ clob = ClobInit
  /\ l2 = L2Init
  /\ faults = Untracked
  /\ tickNo = 1

L2Unchanged ==
  UNCHANGED <<daemonVars, config, tickPc, wallet, positionedTokenIds,
              usdcBalance, cityIdx, reading, readings, calls, orders, scanned,
              scan, clob, faults, tickNo>>

\* fetch(`${CLOB_API}${path}`, { method, headers, body })
Send(method, path, body, headers) ==
  /\ Len(l2.sent) < MaxRequests
  /\ l2' = [sent |-> Append(l2.sent, [method |-> method, path |-> path,
                                      body |-> body, headers |-> headers]),
            signed |-> l2.signed + 1]
  /\ L2Unchanged

\* getOpenOrders: fetch without a method option sends a GET without body.
L2GetOpenOrders(t) ==
  LET path == <<"/orders", "?market_status=open">>
  IN  Send("GET", path, <<>>, l2Headers(L2Creds, "GET", path, <<>>, t))

\* placeOrder: fetch(`${CLOB_API}/order`, { method: "POST", headers, body })
L2PlaceOrder(t, body) ==
  Send("POST", <<"/order">>, body,
       l2Headers(L2Creds, "POST", <<"/order">>, body, t))

\* cancelOrder: fetch(`${CLOB_API}/order`, { method: "DELETE", headers, body })
L2CancelOrder(t, body) ==
  Send("DELETE", <<"/order">>, body,
       l2Headers(L2Creds, "DELETE", <<"/order">>, body, t))

NextL2 ==
  \/ \E t \in Timestamps : L2GetOpenOrders(t)
  \/ \E t \in Timestamps : \E b \in OrderBodies : L2PlaceOrder(t, b)
  \/ \E t \in Timestamps : \E b \in CancelBodies : L2CancelOrder(t, b)

SpecL2 == InitL2 /\ [][NextL2]_vars

\* ---- properties of the strategy manager -----------------------------------

Owners == {p \in Procs : procState[p] = "alive" /\ isOwnerProcess[p]
                          /\ armed[p] # {}}

\* The status a getStatus call of p is about to return.
Returned(q, p) == Head(q[p]).val

\* C1: whatever the interleaving of start operations (startWeatherArb, the
\* plugin's start_weather_arb, the CLI's `scanner start`) issued by processes
\* sharing one data directory, at most one live process at a time is the owner
\* (isOwnerProcess set and a tick timer armed).
C1_AtMostOneOwner == Cardinality(Owners) <= 1

\* C2: when a non-owner's getStatus finds running = true in the status file
\* and the marker absent or naming a dead process, it returns running = false
\* tagged _source = "dead_daemon_cleanup", and when it returns neither the
\* status file nor the marker exists.
C2_DeadOwnerDetection ==
  [][\A p \in Procs :
       GsUnlinkPid(p) =>
         /\ Returned(queue', p).running = FALSE
         /\ Returned(queue', p).source = "dead_daemon_cleanup"
         /\ files'["pid"] = Absent
         /\ (\A q \in Procs \ {p} : queue[q] = <<>>) => files'["status"] = Absent
    ]_vars

\* C3: once startWeatherArb has returned with the timer armed, and as long as
\* no tick has delivered a reading (none completed yet, or the first one
\* failed), the status file on disk reports running = true.
C3_RunningPersistedAtStart ==
  \A p \in Procs :
    (Idle(p) /\ weatherArbIntervalId[p] # 0 /\ weatherArbLastReading[p] = 0)
      => (files["status"].k = "status" /\ files["status"].running)

\* The end state of a stop: timer cleared, persisted status not running, the
\* process's marker gone.
Stopped(p) ==
  /\ weatherArbIntervalId[p] = 0
  /\ files["status"].k = "status" => ~files["status"].running
  /\ files["pid"] # PidData(p)

\* C4: stopping a running owner leaves the same end state whether it is done
\* by stopWeatherArb or by a termination signal / process exit: the timer is
\* cleared, the persisted status says running = false and the liveness marker
\* is removed.
C4_StopEndState ==
  \A p \in Procs :
    /\ (Idle(p) /\ isOwnerProcess[p] /\ handlers[p] > 0
          /\ weatherArbIntervalId[p] = 0) => Stopped(p)
    /\ procState[p] = "cleanedUp" => Stopped(p)

\* C5: stopWeatherArb, or the signal/exit cleanup, run on a manager that is
\* already stopped (or was never started) changes neither the manager's
\* memory nor the status file nor the marker file: no step of such a call
\* does.
C5_StopIdempotent ==
  [][\A p \in Procs :
       ( /\ queue[p] # <<>> /\ Head(queue[p]).again
         /\ queue'[p] # queue[p]
         /\ procState'[p] = "alive" )
       => /\ files'["status"] = files["status"]
          /\ files'["pid"] = files["pid"]
          /\ isOwnerProcess'[p] = isOwnerProcess[p]
          /\ weatherArbIntervalId'[p] = weatherArbIntervalId[p]
          /\ weatherArbLastReading'[p] = weatherArbLastReading[p]
    ]_vars

\* C6: after any sequence of startWeatherArb and stopWeatherArb calls on one
\* manager, at most one repeating tick timer is armed.
C6_AtMostOneTimer == \A p \in Procs : Cardinality(armed[p]) <= 1

\* C7: ticks of one daemon are serialized: never are two of them in flight.
C7_TicksSerialized == \A p \in Procs : Cardinality(inflight[p]) <= 1

\* C8: at every moment the status file and the liveness marker are either
\* absent or hold the complete contents of one write; a file that was opened
\* for writing and not yet filled is never visible under either name.
C8_NoPartialFile == files["status"] # Empty /\ files["pid"] # Empty

\* ---- properties of the Polymarket tick ------------------------------------

Pushed == {readings[i] : i \in 1..Len(readings)}

PlacedFor(c) == \E o \in orders : o.city = c

BelowTradeSize ==
  usdcBalance < Min(config.tradeAmountUsdc, config.maxPositionUsdc)

\* C9 (as stated): in a live tick, every city whose scan yields a target
\* bracket while the balance is below min(tradeAmountUsdc, maxPositionUsdc)
\* gets orderId = null and skippedReason = "insufficient_usdc", and placeOrder
\* is not invoked for it.
C9_InsufficientUsdcAsStated ==
  ~config.dryRun =>
    \A r \in Pushed :
      (r.targetBracket # 0 /\ BelowTradeSize)
        => /\ r.orderId = "null"
           /\ r.skippedReason = "insufficient_usdc"
           /\ ~PlacedFor(r.city)

\* C9 (amended): in a live tick, every city whose scan yields a target bracket
\* whose YES token is not among the tick's open orders, while the balance is
\* below min(tradeAmountUsdc, maxPositionUsdc), gets orderId = null and
\* skippedReason = "insufficient_usdc", and placeOrder is not invoked for it.
\* (A target already among the open orders is skipped as "already_positioned"
\* before the balance is looked at; placeOrder is not invoked then either.)
C9_InsufficientUsdc ==
  ~config.dryRun =>
    \A r \in Pushed :
      (r.targetBracket # 0 /\ BelowTradeSize
         /\ r.targetBracket \notin positionedTokenIds)
        => /\ r.orderId = "null"
           /\ r.skippedReason = "insufficient_usdc"
           /\ ~PlacedFor(r.city)

\* C9 witness: a finished live tick that skipped a city for lack of USDC, its
\* target bracket not being among the open orders.
C9_Witness ==
  /\ tickPc = "done" /\ ~config.dryRun /\ BelowTradeSize
  /\ \E r \in Pushed : /\ r.targetBracket # 0
                       /\ r.targetBracket \notin positionedTokenIds
                       /\ r.skippedReason = "insufficient_usdc"

\* C10: a dry-run tick makes no call to loadEvmWallet, getApiCreds,
\* getOpenOrders, placeOrder or cancelOrder, and every Reading it produces has
\* orderId = null.
C10_DryRunNoClient ==
  config.dryRun =>
    /\ \A f \in {"loadEvmWallet", "getApiCreds", "getOpenOrders", "placeOrder",
                 "cancelOrder"} : calls[f] = 0
    /\ orders = {}
    /\ \A r \in Pushed \cup {reading} : r.orderId = "null"

\* C10 witness: a finished dry-run tick, with trade amounts a zero balance
\* covers, that found a target bracket in every city and logged the would-be
\* buys.
C10_Witness ==
  /\ tickPc = "done" /\ config.dryRun
  /\ config.tradeAmountUsdc = 0
  /\ Len(readings) = NumCities
  /\ \A r \in Pushed : r.targetBracket # 0 /\ r.skippedReason = "null"

\* C11: open orders and the USDC balance are each fetched at most once per
\* tick, whatever the number of cities, and a city whose target bracket's YES
\* token is among those open orders gets skippedReason = "already_positioned"
\* and no placeOrder call.
C11_FetchedOncePositionedSkipped ==
  /\ calls["getOpenOrders"] <= 1
  /\ calls["getUsdcBalance"] <= 1
  /\ \A r \in Pushed :
       (r.targetBracket # 0 /\ r.targetBracket \in positionedTokenIds)
         => (r.skippedReason = "already_positioned" /\ r.orderId = "null"
             /\ ~PlacedFor(r.city))

\* C11 witness: a finished live tick over all cities that fetched open orders
\* and balance once and skipped a city as already positioned.
C11_Witness ==
  /\ tickPc = "done" /\ Len(readings) = NumCities
  /\ calls["getOpenOrders"] = 1 /\ calls["getUsdcBalance"] = 1
  /\ \E r \in Pushed : /\ r.targetBracket \in positionedTokenIds
                       /\ r.skippedReason = "already_positioned"

\* The wallet load did not fail: the tick got past line 23.
WalletLoadSucceeded == wallet # "unset"

\* The loop is over (or was never entered).
LoopOver == tickPc \in {"onReading", "done", "rejected"}

\* C12: per-location failures are isolated. In a tick whose wallet load
\* succeeds, an exception while scanning or ordering for a city gives that
\* city a Reading with skippedReason = "error" and the loop goes on, so that
\* onReading receives exactly one Reading per configured city, in
\* configuration order.
C12_PerCityIsolation ==
  /\ [](/\ \A i \in 1..Len(readings) : readings[i].city = i
        /\ (LoopOver /\ WalletLoadSucceeded) => Len(readings) = NumCities)
  /\ [][/\ (\E res \in ScanResults : TickScanCity(TRUE, res))
             => /\ readings' = Append(readings,
                      [NewReading(cityIdx) EXCEPT !.skippedReason = "error"])
                /\ tickPc' = "city"
        /\ (\E out \in {"signThrows", "credsThrow", "non2xx", "errorMsg"} :
              TickPlaceOrder(out))
             => /\ Len(readings') = Len(readings) + 1
                /\ readings'[Len(readings')].city = cityIdx
                /\ readings'[Len(readings')].skippedReason = "error"
                /\ tickPc' = "city"]_vars

\* C12 witness: a finished live tick in which the first city failed and the
\* second city was still processed, up to an issued order.
C12_Witness ==
  /\ tickPc = "done" /\ wallet = "loaded" /\ Len(readings) = NumCities
  /\ readings[1].skippedReason = "error"
  /\ readings[NumCities].skippedReason = "null"
  /\ readings[NumCities].orderId = "issued"

\* The tick's promise has settled.
Settled == tickPc \in {"done", "rejected"}

OrdersFor(c) == {o \in orders : o.city = c}

\* City i's scan gave a qualifying target bracket that is not among the open
\* orders, in a live tick whose balance covers the trade size.
ShouldOrder(i) ==
  /\ ~config.dryRun
  /\ scanned[i].skippedReason = "null"
  /\ scanned[i].targetBracket \notin positionedTokenIds
  /\ usdcBalance >= Min(config.tradeAmountUsdc, config.maxPositionUsdc)

\* C14: in a live tick, for every city whose scan yields a qualifying target
\* bracket that is not already positioned and whose balance is sufficient,
\* placeOrder is invoked exactly once, with that bracket's token id, the
\* observed ask price as limit price and min(tradeAmountUsdc,
\* maxPositionUsdc) as size, and the Reading carries the order id the call
\* returned.
C14_OrderPlacedAsScanned ==
  /\ calls["placeOrder"] = Cardinality(orders)
  /\ \A i \in 1..Len(readings) :
       ShouldOrder(i) =>
         /\ Cardinality(OrdersFor(i)) = 1
         /\ \A o \in OrdersFor(i) :
              /\ o.token = scanned[i].targetBracket
              /\ o.price = scanned[i].askPrice
              /\ o.size = Min(config.tradeAmountUsdc, config.maxPositionUsdc)
              /\ o.returned # "pending"
              /\ o.returned # "threw" => readings[i].orderId = o.returned

\* C14 witness: a finished live tick where the cap is below the trade amount
\* and a city's order was placed at the scanned ask price and got its id.
C14_Witness ==
  /\ tickPc = "done" /\ config.maxPositionUsdc < config.tradeAmountUsdc
  /\ \E i \in 1..Len(readings) :
       /\ ShouldOrder(i)
       /\ readings[i].orderId = "issued"
       /\ \E o \in OrdersFor(i) : o.price = 45 /\ o.size = config.maxPositionUsdc

\* ---- properties of scanCity ------------------------------------------------

\* Neither of the two early returns applies to the brackets that were listed.
NoEarlierSkip ==
  Len(scan.rawBrackets) > 0 /\ MinClose(scan.rawBrackets) >= 30

\* fairValue - askPrice of listed bracket i, once its ask price is known.
EdgeOf(i) == scan.rawBrackets[i].fairValue - scan.askPrices[i]

\* The brackets that are non-terminal, accept orders, have an observable ask
\* price and satisfy both thresholds.
Qualifying ==
  {i \in 1..Len(scan.rawBrackets) :
     /\ ~scan.rawBrackets[i].isTerminal /\ scan.rawBrackets[i].acceptingOrders
     /\ scan.askPrices[i] \notin {Unfetched, NoPrice}
     /\ EdgeOf(i) >= scan.minEdge
     /\ scan.rawBrackets[i].fairValue >= scan.minFairValue}

\* C15: scanCity's targetBracket is a bracket of maximal edge among the
\* qualifying brackets; it is null with skippedReason "no_edge" exactly when
\* no bracket qualifies (and no earlier skip applied); skippedReason is null
\* exactly when targetBracket is non-null.
C15_TargetIsBestQualifying ==
  scan.pc = "returned" =>
    /\ (scan.result.skippedReason = "null") <=> (scan.result.targetBracket # 0)
    /\ NoEarlierSkip =>
         /\ (Qualifying = {}) <=> (/\ scan.result.targetBracket = 0
                                   /\ scan.result.skippedReason = "no_edge")
         /\ scan.result.targetBracket # 0 =>
              /\ scan.result.targetBracket \in Qualifying
              /\ \A j \in Qualifying :
                   EdgeOf(scan.result.targetBracket) >= EdgeOf(j)

\* C15 witness: two brackets qualify with different edges and the scan
\* returned the one with the larger edge.
C15_Witness ==
  /\ scan.pc = "returned" /\ NoEarlierSkip
  /\ scan.result.targetBracket \in Qualifying
  /\ \E j \in Qualifying : EdgeOf(j) < EdgeOf(scan.result.targetBracket)

\* C16: the ordinary no-opportunity cases return a complete result instead of
\* throwing, in this order: no brackets gives "no_market"; otherwise an
\* earliest close less than 30 minutes away gives "market_closing_soon", with
\* no bracket price fetched; scanCity throws only out of the forecast fetch or
\* the market fetch.
C16_EarlySkipsInOrder ==
  /\ scan.pc = "returned" /\ Len(scan.rawBrackets) = 0
       => scan.result = Skipped("no_market") /\ scan.askPrices = <<>>
  /\ (/\ scan.pc \in {"pricing", "returned"}
      /\ Len(scan.rawBrackets) > 0 /\ MinClose(scan.rawBrackets) < 30)
       => /\ scan.pc = "returned"
          /\ scan.result = Skipped("market_closing_soon")
          /\ scan.askPrices = <<>>
  /\ scan.pc = "returned" /\ NoEarlierSkip
       => scan.result.skippedReason \in {"null", "no_edge"}
  /\ scan.pc = "threw" => scan.rawBrackets = <<>> /\ scan.askPrices = <<>>

\* C16 witness: tradeable brackets were listed, one closing in 29 minutes and
\* one in 30, and the scan returned "market_closing_soon".
C16_Witness ==
  /\ scan.pc = "returned" /\ scan.result.skippedReason = "market_closing_soon"
  /\ tradeable(scan.rawBrackets) # {}
  /\ \E i, j \in 1..Len(scan.rawBrackets) :
       scan.rawBrackets[i].close = 29 /\ scan.rawBrackets[j].close = 30

\* The tradeable brackets whose ask price could be fetched.
WithPrice ==
  {i \in tradeable(scan.rawBrackets) : scan.askPrices[i] # NoPrice}

\* C17: a failed ask-price fetch removes only its bracket: the scan does not
\* abort, every other tradeable bracket is still priced, and the best
\* qualifying bracket among the remaining ones is still selected.
C17_FailedPriceDropsOneBracket ==
  /\ scan.pc = "threw" => scan.askPrices = <<>>
  /\ (scan.pc = "returned" /\ NoEarlierSkip) =>
       /\ \A i \in tradeable(scan.rawBrackets) : scan.askPrices[i] # Unfetched
       /\ {scan.result.allBrackets[k].yesTokenId :
             k \in 1..Len(scan.result.allBrackets)} = WithPrice
       /\ \A k \in 1..Len(scan.result.allBrackets) :
            scan.result.allBrackets[k].askPrice
              = scan.askPrices[scan.result.allBrackets[k].yesTokenId]
       /\ Qualifying # {} =>
            /\ scan.result.targetBracket \in Qualifying
            /\ \A j \in Qualifying :
                 EdgeOf(scan.result.targetBracket) >= EdgeOf(j)

\* C17 witness: one bracket's price fetch failed and the scan returned the
\* other bracket as its target.
C17_Witness ==
  /\ scan.pc = "returned" /\ NoEarlierSkip
  /\ \E i \in tradeable(scan.rawBrackets) : scan.askPrices[i] = NoPrice
  /\ scan.result.targetBracket \in WithPrice

\* ---- properties of placeOrder within the tick -------------------------------

\* C18: a successful-status order response without an order identifier makes
\* placeOrder fail, so that no Reading reports an orderId the market did not
\* issue.
C18_NoUnissuedOrderId ==
  /\ \A o \in orders : o.outcome = "noOrderId" => o.returned = "threw"
  /\ \A r \in Pushed : r.orderId \in {"null", "issued"}

\* C19: a rejected order (non-2xx response, or a 2xx body with an errorMsg)
\* makes placeOrder fail with an error carrying the server's message; no
\* PlacedOrder is returned, and the city's Reading gets orderId = null and
\* skippedReason = "error".
C19_RejectedOrderIsError ==
  \A o \in orders :
    o.outcome \in {"non2xx", "errorMsg"} =>
      /\ o.returned = "threw" /\ o.error = "server"
      /\ o.city <= Len(readings)
      /\ readings[o.city].orderId = "null"
      /\ readings[o.city].skippedReason = "error"

\* C19 witness: a finished tick in which one order got a 2xx body with an
\* errorMsg and another a non-2xx response.
C19_Witness ==
  /\ tickPc = "done"
  /\ \E o \in orders : o.outcome = "errorMsg" /\ o.error = "server"
  /\ \E o \in orders : o.outcome = "non2xx" /\ o.error = "server"

\* ---- properties of getApiCreds ---------------------------------------------

\* C20: the L1 handshake is one-time per identity, overlapping calls included:
\* the L1 auth request is sent again only if no earlier handshake for the
\* address succeeded, and once credentials are cached they are returned
\* unchanged.
C20_HandshakeOneTime ==
  /\ ~clob.resent
  /\ clob.firstCached # 0 => clob.credsCache = clob.firstCached

\* C21: if the L1 auth response is non-2xx or lacks apiKey, secret or
\* passphrase, getApiCreds fails and leaves the credential cache as it was
\* (nothing is cached unless a handshake completed), so that a later call,
\* finding no entry, goes through the handshake again.
C21_FailedAuthCachesNothing ==
  /\ [](~clob.completed => clob.credsCache = 0)
  /\ [][\A c \in CallIds :
          /\ (ClobFetched(c, FALSE) \/ \E k \in Creds : ClobParsed(c, FALSE, k))
               => /\ clob'.call[c].pc = "threw"
                  /\ clob'.credsCache = clob.credsCache
          /\ (ClobStart(c) /\ clob.credsCache = 0)
               => clob'.call[c].pc = "signing"]_vars

\* C21 witness: the first call sent the L1 request and failed, nothing was
\* cached, and the second call sent the request again and got credentials.
C21_Witness ==
  /\ clob.call[1].pc = "threw" /\ clob.call[2].pc = "returned"
  /\ clob.call[3].pc = "idle"
  /\ clob.sent = 2 /\ ~clob.resent /\ clob.credsCache = clob.call[2].creds

\* ---- properties of the L2 requests -----------------------------------------

\* C22: every L2-authenticated request (GET list orders, POST place order,
\* DELETE cancel order) carries a signature computed for it over timestamp +
\* upper-cased method + path + body, with the method, path and body of the
\* request sent (body empty for GET) and the timestamp of its timestamp
\* header; no signature is reused for another request.
C22_SignatureOverRequestSent ==
  /\ l2.signed = Len(l2.sent)
  /\ \A i \in 1..Len(l2.sent) :
       LET r == l2.sent[i]
       IN  /\ r.method \in {"GET", "POST", "DELETE"}
           /\ r.method = "GET" => r.body = <<>>
           /\ r.headers.signature =
                Hmac(L2Creds.apiSecret,
                     r.headers.timestamp \o <<r.method>> \o r.path \o r.body)

\* C22 witness: a list, a place and a cancel request were sent, the last two
\* at the same time and on the same path with different bodies, and their
\* signatures differ.
C22_Witness ==
  /\ Len(l2.sent) = 3
  /\ l2.sent[1].method = "GET" /\ l2.sent[2].method = "POST"
  /\ l2.sent[3].method = "DELETE"
  /\ l2.sent[2].headers.timestamp = l2.sent[3].headers.timestamp
  /\ l2.sent[2].headers.signature # l2.sent[3].headers.signature

\* ---- properties of the tick's guarded fetches -------------------------------

\* City i's scan gave a target bracket that is not among the open orders: a
\* live tick would trade it, balance permitting.
WouldTrade(i) ==
  /\ scanned[i].skippedReason = "null"
  /\ scanned[i].targetBracket \notin positionedTokenIds

\* C23: the balance check fails safe. If the balance fetch fails in a live
\* tick the balance is taken to be 0, so that for a positive trade size every
\* would-be trade of the tick is skipped with "insufficient_usdc" and
\* placeOrder is never invoked.
C23_BalanceFailsSafe ==
  ("getUsdcBalance" \in faults
     /\ Min(config.tradeAmountUsdc, config.maxPositionUsdc) > 0) =>
    /\ usdcBalance = 0
    /\ calls["placeOrder"] = 0 /\ orders = {}
    /\ \A i \in 1..Len(readings) :
         WouldTrade(i) => /\ readings[i].skippedReason = "insufficient_usdc"
                          /\ readings[i].orderId = "null"

\* C23 witness: a finished live tick with a positive trade size whose balance
\* fetch failed and which skipped every city's trade for lack of USDC.
C23_Witness ==
  /\ tickPc = "done" /\ "getUsdcBalance" \in faults
  /\ Min(config.tradeAmountUsdc, config.maxPositionUsdc) > 0
  /\ Len(readings) = NumCities
  /\ \A i \in 1..Len(readings) :
       WouldTrade(i) /\ readings[i].skippedReason = "insufficient_usdc"

\* C24: a getOpenOrders failure does not abort the tick: the tick goes on as
\* if there were no open positions, still scans every configured city and
\* still produces one Reading per city.
C24_OpenOrdersFailureDegrades ==
  "getOpenOrders" \in faults =>
    /\ tickPc \notin {"wallet", "openOrders"}
    /\ positionedTokenIds = {}
    /\ \A r \in Pushed : r.skippedReason # "already_positioned"
    /\ LoopOver => /\ Len(readings) = NumCities
                   /\ calls["scanCity"] = NumCities
                   /\ \A i \in 1..NumCities : readings[i].city = i

\* C24 witness: a finished live tick whose open-orders query failed, with one
\* Reading per city, the last of them for an order that was placed.
C24_Witness ==
  /\ tickPc = "done" /\ "getOpenOrders" \in faults
  /\ Len(readings) = NumCities /\ calls["scanCity"] = NumCities
  /\ readings[NumCities].orderId = "issued"

\* ---- dry-run against live ---------------------------------------------------

\* C25: given the same forecasts, brackets, ask prices, open orders and
\* balance, the Readings of a live tick agree with those of a dry-run tick in
\* every field other than orderId.  (Cities whose order the market refused or
\* could not be sent are left out: the live Readings compared are those of
\* cities without an order or with an accepted one.)
C25_DryRunLiveAgree ==
  ~config.dryRun =>
    \A i \in 1..Len(readings) :
      (\A o \in OrdersFor(i) : o.returned # "threw") =>
        /\ readings[i].city = DryRunReading(i, scanned[i]).city
        /\ readings[i].targetBracket = DryRunReading(i, scanned[i]).targetBracket
        /\ readings[i].skippedReason = DryRunReading(i, scanned[i]).skippedReason

\* ---- properties of a sequence of ticks --------------------------------------

RECURSIVE SumSizes(_)
SumSizes(os) ==
  IF os = {} THEN 0
  ELSE LET o == CHOOSE x \in os : TRUE IN o.size + SumSizes(os \ {o})

\* The USDC of the orders for which the market issued an id, on the bracket
\* of city c whose YES token is t.
Committed(c, t) ==
  SumSizes({o \in orders : /\ o.city = c /\ o.token = t
                           /\ o.returned = "issued"})

\* C26: maxPositionUsdc is a hard cap per bracket: over any sequence of live
\* ticks, with orders filling or open-order queries failing between ticks,
\* the total USDC committed to orders on one bracket's YES token never
\* exceeds maxPositionUsdc.
C26_PositionCapHolds ==
  \A c \in Cities, t \in Tokens : Committed(c, t) <= config.maxPositionUsdc

\* ---- persistence failures of the strategy manager -----------------------------

ArmOps == {"tickArm", "tickArmRegister"}

\* The queued step of a startWeatherArb call that fires the first tick and
\* arms the timer, while the call has not got there yet.
PendingArm(q) == {i \in DOMAIN q : q[i].op \in ArmOps}

\* C27: a failing write of the status file or the liveness marker never
\* propagates: a startWeatherArb call that comes to its end in a live process
\* has armed its timer and has its first tick in flight.
C27_WriteFailureSwallowed ==
  [][\A p \in Procs :
       (/\ PendingArm(queue[p]) # {}
        /\ PendingArm(queue'[p]) = {}
        /\ procState'[p] = "alive")
       => \A i \in PendingArm(queue[p]) :
            /\ queue[p][i].timer \in armed'[p]
            /\ queue[p][i].tick \in inflight'[p]]_vars

\* ---- file effects of processes that do not own the daemon --------------------

\* The step is taken by a process that is not the owner: the command-line
\* process, or a process of the manager whose isOwnerProcess is false.
NonOwnerStep ==
  \/ cliPc' # cliPc
  \/ \E p \in Procs :
       ~isOwnerProcess[p] /\ ~isOwnerProcess'[p] /\ queue'[p] # queue[p]

\* getStatus found the status saying running and no live process behind the
\* marker, and is deleting the two files.
DeadOwnerCleanup ==
  \E p \in Procs :
    /\ ~isOwnerProcess[p]
    /\ queue[p] # <<>>
    /\ HeadOp(p).op \in {"unlink", "gsUnlinkPid"}
    /\ queue'[p] # queue[p]

\* C28: a process that is not the owner never creates or overwrites the
\* status file or the liveness marker, and deletes one only on the dead-owner
\* cleanup path of getStatus.
C28_NonOwnerOnlyCleansUp ==
  [][NonOwnerStep =>
       \A f \in {"status", "pid"} :
         files'[f] # files[f] => files'[f] = Absent /\ DeadOwnerCleanup]_vars

\* ---- the status file after a clean exit ---------------------------------------

\* The one daemon of the run has left through cleanup and process.exit, and
\* no command of the CLI is under way.
ExitedCleanly ==
  /\ nStarts = 1
  /\ \E p \in Procs : procState[p] = "cleanedUp"
  /\ cliPc = "idle"

\* C30: once the daemon has exited cleanly (stopped by the CLI, or ended by a
\* termination signal that cleanup handled), the status file does not exist.
C30_StatusFileGoneAfterExit == ExitedCleanly => files["status"] = Absent

\* ---- the status file after overlapping ticks -----------------------------------

\* The daemon is between handlers and every tick launched so far, at least
\* two of them, has delivered its reading.
TicksCompleted(p) ==
  /\ procState[p] = "alive" /\ isOwnerProcess[p]
  /\ queue[p] = <<>>
  /\ inflight[p] = {}
  /\ nTicks >= 2

\* C29: when a slow tick and a timer-fired tick overlap, then after both have
\* completed the status file is a whole status carrying the reading of one of
\* the ticks (the one that completed last), and no temporary file is left.
C29_OneReadingPersisted ==
  \A p \in Procs :
    TicksCompleted(p) =>
      /\ files["status"] =
           StatusData(weatherArbIntervalId[p] # 0, weatherArbLastReading[p])
      /\ files["status"].reading \in 1..nTicks
      /\ files["status.tmp"] = Absent

\* C29 witness: the first tick was the slow one; the timer-fired second tick
\* completed before it, and the file holds the first tick's reading.
C29_Witness ==
  \E p \in Procs :
    TicksCompleted(p) /\ nTicks = 2 /\ files["status"] = StatusData(TRUE, 1)

\* ---- snapshots older than the staleness window ---------------------------------

\* C31: a status query of a process that is not the owner never returns a
\* snapshot older than the staleness window as running = true without
\* marking it stale.
C31_OldSnapshotMarkedStale ==
  \A p \in Procs :
    (/\ Running(p, "return")
     /\ ~isOwnerProcess[p]
     /\ HeadOp(p).old
     /\ HeadOp(p).val.running)
    => HeadOp(p).val.stale

\* ---- a city whose calls never complete -----------------------------------------

\* C32: no city's decision waits on another's: although the calls made for
\* one city may never complete, the tick ends or the Reading of every other
\* configured city is eventually produced.
C32_OtherCitiesNotBlocked ==
  <>(\/ tickPc \in {"done", "rejected"}
     \/ \A c \in Cities \ {SlowCity} :
          \E i \in 1..Len(readings) : readings[i].city = c)

\* ---- properties of forecastSigmaF ------------------------------------------------

\* 2 + (h - 6) / 12, which is exact on the grid.
SigmaBetween(h) == 2 * SigmaUnit + ((h - 6 * HourUnit) * SigmaUnit) \div (12 * HourUnit)

\* C34: forecastSigmaF(h) is 2 for h <= 6, 4 for h >= 30 and 2 + (h - 6)/12
\* in between; it is continuous at both breakpoints (one grid step changes it
\* by at most the slope), non-decreasing in h and within [2, 4].
C34_SigmaPiecewiseLinear ==
  scan.pc = "sigmaF" =>
    /\ scan.sigmaF1 = (IF scan.h1 <= 6 * HourUnit THEN 2 * SigmaUnit
                       ELSE IF scan.h1 >= 30 * HourUnit THEN 4 * SigmaUnit
                       ELSE SigmaBetween(scan.h1))
    /\ ((scan.h1 - 6 * HourUnit) * SigmaUnit) % (12 * HourUnit) = 0
    /\ scan.h2 = scan.h1 + 1 =>
         scan.sigmaF2 - scan.sigmaF1 \in {0, SigmaUnit \div (12 * HourUnit)}
    /\ scan.h1 <= scan.h2 => scan.sigmaF1 <= scan.sigmaF2
    /\ 2 * SigmaUnit <= scan.sigmaF1 /\ scan.sigmaF1 <= 4 * SigmaUnit

\* C34 witness: the two calls sit on either side of the upper breakpoint, one
\* on the sloped part and one on the plateau.
C34_Witness ==
  /\ scan.pc = "sigmaF"
  /\ scan.h1 = 30 * HourUnit - 1 /\ scan.h2 = 30 * HourUnit
  /\ scan.sigmaF1 = 4 * SigmaUnit - SigmaUnit \div (12 * HourUnit)
  /\ scan.sigmaF2 = 4 * SigmaUnit

\* ---- properties of bracketFairValue ----------------------------------------------

\* C33: bracketFairValue(lo, hi, mu, sigma) lies in [0, 1], does not decrease
\* when hi grows and does not increase when lo grows (mu and sigma fixed),
\* and an unbounded lower (upper) end makes its CDF term 0 (1).
C33_FairValueBoundedMonotone ==
  scan.pc = "fairValue" =>
    /\ 0 <= scan.fairValue /\ scan.fairValue <= ProbOne
    /\ scan.hi <= scan.hi2 => scan.fairValue <= scan.fairValueHi2
    /\ scan.lo <= scan.lo2 => scan.fairValueLo2 <= scan.fairValue
    /\ scan.lo = NegInf => scan.loCDF = 0
    /\ scan.hi = PosInf => scan.hiCDF = ProbOne

\* C33 witness: a finite bracket with a fair value strictly inside (0, 1)
\* that grows with a larger hi and shrinks with a larger lo.
C33_Witness ==
  /\ scan.pc = "fairValue"
  /\ isFinite(scan.lo) /\ isFinite(scan.hi2)
  /\ scan.lo < scan.lo2 /\ scan.lo2 < scan.hi /\ scan.hi < scan.hi2
  /\ 0 < scan.fairValueLo2
  /\ scan.fairValueLo2 < scan.fairValue
  /\ scan.fairValue < scan.fairValueHi2
  /\ scan.fairValueHi2 < ProbOne

\* ---- the liveness marker of a live owner ---------------------------------------

\* The process is an owner whose startWeatherArb call has armed the timer,
\* it is between handlers and no termination signal is queued for it.
LiveOwner(p) ==
  /\ procState[p] = "alive" /\ isOwnerProcess[p]
  /\ weatherArbIntervalId[p] # 0 /\ weatherArbIntervalId[p] \in armed[p]
  /\ queue[p] = <<>>
  /\ ~sigPending[p]

\* C35: whenever a process is the owner with an armed timer, the marker file
\* exists and holds that process's own pid.
C35_LiveOwnerHoldsMarker ==
  \A p \in Procs : LiveOwner(p) => files["pid"] = PidData(p)

\* ---- the balance within one tick -------------------------------------------------

\* The orders of the tick in hand for which the market issued an id.
PlacedThisTick == {o \in orders : o.tick = tickNo /\ o.returned = "issued"}

\* C36: within one live tick, the sizes of the orders placed across the
\* configured cities add up to at most the USDC balance read at the start of
\* the tick.
C36_OrdersWithinBalance ==
  (~config.dryRun /\ PlacedThisTick # {}) => SumSizes(PlacedThisTick) <= usdcBalance

\* ---- after stopWeatherArb ---------------------------------------------------------

\* stopWeatherArb (or a start that never armed) has returned: the process is
\* an owner between handlers whose interval id is null.
StopReturned(p) ==
  /\ procState[p] = "alive" /\ isOwnerProcess[p]
  /\ weatherArbIntervalId[p] = 0
  /\ queue[p] = <<>>

\* C37: once stopWeatherArb has returned, nothing of the scanner is left
\* that could start a tick or place an order: no timer is armed and no tick
\* is in flight.
C37_NothingRunsAfterStop ==
  \A p \in Procs : StopReturned(p) => armed[p] = {} /\ inflight[p] = {}

\* ---- well-formed Readings --------------------------------------------------------

ReadingReasons ==
  {"null"} \cup SkipReasons \cup {"already_positioned", "insufficient_usdc", "error"}

WellFormed(r) ==
  /\ r.skippedReason \in ReadingReasons
  /\ r.orderId # "null" => r.skippedReason = "null" /\ r.targetBracket # 0
  /\ ~config.dryRun => ((r.orderId # "null") # (r.skippedReason # "null"))

\* C38: every Reading handed to onReading carries one of the seven skip
\* reasons or none; it has an order id only if it has no skip reason and has
\* a target bracket; and in live mode it has exactly one of order id and
\* skip reason.
C38_ReadingsWellFormed ==
  \A i \in 1..Len(readings) : WellFormed(readings[i])

\* C38 witness: a live tick has handed over a Reading with an order id and a
\* Reading with a skip reason.
C38_Witness ==
  /\ tickPc = "done" /\ ~config.dryRun
  /\ \E i \in 1..Len(readings) : readings[i].orderId # "null"
  /\ \E i \in 1..Len(readings) :
       readings[i].skippedReason \in {"insufficient_usdc", "error"}

\* ---- a status file that cannot be used ------------------------------------------

\* The status file exists but cannot be parsed (it is empty, or no JSON) or
\* lacks the expected shape.
Malformed(d) == d.k \in {"empty", "foreign"}

\* C39: when the status file cannot be parsed or lacks the expected shape,
\* getStatus of a process that is not the owner returns the default stopped
\* status (running = false, _source = "default") and leaves the status file
\* and the marker as they are.
C39_MalformedStatusGivesDefault ==
  [][\A p \in Procs :
       (/\ Running(p, "gsRead")
        /\ queue'[p] # queue[p] /\ queue'[p] # <<>>
        /\ Malformed(files["status"]))
       => /\ Head(queue'[p]) = ReturnOp(defaultStatus)
          /\ files' = files]_vars

====
